---- MODULE Spec2Model ----
(***************************************************************************)
(* Model of the jujud machine agent: MachineAgent.Run / Stop / runOnce     *)
(* (src/jujud/bootstrap.go) and the task supervisor runTasks               *)
(* (src/unnamed/part_005).                                                 *)
(*                                                                         *)
(* A task is anything with Stop, Wait and String.  The tasks the agent     *)
(* runs are tomb-backed workers: a task dies once, with one error, and     *)
(* from then on both Wait and Stop return that error; Stop on a running    *)
(* task kills it and returns the error it died with.                       *)
(***************************************************************************)
EXTENDS Integers, Sequences, FiniteSets, TLC

\* Bounds of the model.
MaxJobs == 1        \* length of the machine's job list
MaxPasswords == 2   \* passwords trivial.RandomPassword can hand out
MaxMachines == 2    \* machines added to the state
MaxInstances == 2   \* instances the provider starts
MaxErrors == 2      \* distinct errors of one kind given to importance

(***************************************************************************)
(* Errors.  nil, worker.ErrDead and tomb.ErrStillAlive are single values;  *)
(* an *UpgradeReadyError is a pointer (one per task that creates it) and   *)
(* every other error is a generic error identified by where it was made.   *)
(***************************************************************************)
Nil == [kind |-> "nil", id |-> 0]
ErrDead == [kind |-> "dead", id |-> 0]
ErrStillAlive == [kind |-> "stillalive", id |-> 0]
Generic(i) == [kind |-> "generic", id |-> i]
UpgradeReady(i) == [kind |-> "upgrade", id |-> i]

\* Generic errors made outside the tasks.
ErrConfRead == Generic(10)
ErrOpenState == Generic(11)
ErrMachine == Generic(12)
ErrSetPassword == Generic(13)
ErrChangeTools == Generic(14)

isUpgraded(err) == err.kind = "upgrade"

\* importance with a bug: the default case, written first of the cases
\* that follow nil, is taken for every error that is not nil.
importanceDefaultFirst(err) ==
    CASE err = Nil -> 0
      [] OTHER -> 1

importance(err) ==
    CASE err = Nil -> 0
      [] isUpgraded(err) -> 2
      [] err = ErrDead -> 3
      [] OTHER -> 1

moreImportant(err0, err1) == importance(err0) > importance(err1)

(***************************************************************************)
(* launchpad.net/tomb as the agent uses it.                                *)
(***************************************************************************)
\* The reason a tomb holds after Kill(reason): only the first non-nil
\* reason is kept.
TombKill(cur, reason) ==
    IF cur = Nil \/ cur = ErrStillAlive THEN reason ELSE cur

(***************************************************************************)
(* The task list of an epoch.                                              *)
(***************************************************************************)
Jobs == {"JobHostUnits", "JobManageEnviron", "JobUnknown"}

\* The job lists a machine can have: the state rejects duplicate jobs.
JobLists ==
    {js \in UNION {[1..n -> Jobs] : n \in 0..MaxJobs} :
        \A i, j \in DOMAIN js : i # j => js[i] # js[j]}

JobTasks(j) ==
    CASE j = "JobHostUnits" -> <<"deployer">>
      [] j = "JobManageEnviron" -> <<"provisioner", "firewaller">>
      [] OTHER -> <<>>

RECURSIVE AppendJobs(_, _)
AppendJobs(ts, js) ==
    IF js = <<>> THEN ts ELSE AppendJobs(ts \o JobTasks(Head(js)), Tail(js))

\* BuildTasks with a bug: the upgrader is not among the tasks.
BuildTasksJobsOnly(js) == AppendJobs(<<>>, js)

\* tasks := []task{NewUpgrader(...)} followed by the tasks of each job.
BuildTasks(js) == AppendJobs(<<"upgrader">>, js)

VARIABLES
    tombState,   \* a.tomb: "alive", "dying" or "dead"
    tombReason,  \* a.tomb's reason (ErrStillAlive until killed)
    runPc,       \* where MachineAgent.Run is
    runRet,      \* what Run returned
    stopPc,      \* where a caller of MachineAgent.Stop is: "idle", "waiting",
                 \* "returned", "again" (inside a later call)
    stopRet,     \* what Stop returned
    epoch,       \* runOnce calls begun: "none", "first" or "later"
    epochErr,    \* what runOnce returned in this epoch
    runErr,      \* err in Run once the upgrade branch is past
    observed,    \* what st.Machine gave in this epoch: "none", "alive", "dead",
                 \* "notfound" or "error"
    connOpen,    \* whether runOnce holds an open state connection
    pwChanged,   \* OpenState reported a changed password in this epoch
    swapRes,     \* ChangeAgentTools in this epoch: "none", "ok", "failed"
    swapCalls,   \* ChangeAgentTools calls in this epoch
    slept,       \* how the retry wait of this epoch ended: "none", "full" (the
                 \* whole delay was slept) or "stopped"
    tasks,       \* the tasks of this epoch (names), <<>> before they are built
    jobs,        \* m.Jobs() as read when the tasks of this epoch were built
    tState,      \* per task: "running" or "dead"
    tErr,        \* per task: the error it died with
    stopCalled,  \* per task: number of Stop calls made by runTasks
    waited,      \* per task: runTasks' last loop has called Wait on it
    gPc,         \* per task: its waiting goroutine: "wait" or "sent"
    done,        \* the done channel of runTasks (buffered, cap len(tasks))
    chosen,      \* chosen errInfo; index 0 stands for the source's -1
    rtPc,        \* runTasks in this epoch: "idle" (not called), "waiting",
                 \* "stopping", "logging", "ret" (returning), "returned"
    waitIter,    \* values the waiting loop has received from done
    idx,         \* index of the stopping / logging loop
    logged,      \* tasks whose error the last loop logged
    woke         \* what ended the waiting loop of this epoch: "none",
                 \* "failed", "allNil" or "stop"

\* The agent of the generic run loop (RunLoop, runOnce, openState), its
\* password file and the state store's record of its entity.
VARIABLES
    pwfile,      \* content of the password file (NoFile when it does not exist)
    entityPw,    \* the password the state store accepts for the entity
    generated,   \* passwords handed out by trivial.RandomPassword so far
    osPc,        \* where the agent is in runOnce / openState
    data,        \* openState: what ReadFile returned
    password,    \* openState's result password ("" is NoPassword)
    stOpen,      \* the connection of this epoch: "none", "open", "closed"
    osErr,       \* the error runOnce returned
    tried,       \* the passwords state.Open was called with, in order
    storedRes,   \* state.Open with the stored password: "none", "ok",
                 \* "unauthorized", "error"
    saved,       \* WriteFile of the new password: "none", "ok", "failed"
    setPw,       \* entity.SetPassword in this epoch: "none", "ok", "failed"
    ranOnce      \* a.RunOnce was called on this epoch's connection

\* A caller of openAPIState and its agent configuration.
VARIABLES
    apiPc,       \* where openAPIState is
    apiConn,     \* the API connection of this call: "none", "open", "closed"
    newPassword, \* what c.OpenAPI returned as newPassword
    conf,        \* *c, the agent configuration in memory
    disk,        \* the configuration file as last written
    confAtCall,  \* *c when openAPIState was called
    apiWrite,    \* c1.Write() in this call: "none", "ok", "failed"
    apiErr,      \* the error openAPIState returned
    apiGenerated \* new passwords c.OpenAPI has handed out so far

\* A closeWorker, the worker it wraps and its closer.
VARIABLES
    cwPc,        \* closeWorker.Wait: "none", "waiting" (in c.worker.Wait()),
                 \* "closing" (about to call c.closer.Close()), "returned"
    cwWorker,    \* the wrapped worker: "running" or "dead"
    cwKilled,    \* Kill has been called on the wrapped worker
    cwErr,       \* the error the wrapped worker died with
    cwClosed,    \* the closer has been closed
    cwCloseErr,  \* what the last c.closer.Close() returned
    cwRet        \* what closeWorker.Wait returned

\* A call of agentDone.
VARIABLES
    adPc,        \* "none", "called", "returned"
    adErr,       \* the error given to agentDone
    adSwap,      \* what ChangeAgentTools returns if it is called
    adSwaps,     \* ChangeAgentTools calls made by this call of agentDone
    adTools,     \* the tools the agent now runs: 0, or the id of the
                 \* UpgradeReadyError whose tools were swapped in
    adRet        \* what agentDone returned

\* A call of cmd.Main.
VARIABLES
    cmdPc,       \* "none", "parse", "init", "run", "returned"
    command,     \* what the Command given to Main does: the results of
                 \* parsing its flags, of Init and of Run, and whether Run
                 \* writes to the context
    cmdCalls,    \* the steps made so far, in order
    cmdStderr,   \* what was written to ctx.Stderr, and by whom
    cmdStdout,   \* what was written to ctx.Stdout, and by whom
    cmdLog,      \* what was logged
    cmdCode      \* the code Main returned

\* Calls of importance and moreImportant on three errors.
VARIABLES
    impPc,       \* "none", "drawn" (arguments chosen), "applied"
    impArgs,     \* the three errors
    impRanks,    \* importance of each of them
    impMore      \* moreImportant of each pair of them

\* The provisioner, the machines in the state, the environment
\* configuration and the provider's instances.
VARIABLES
    machines,    \* per machine id: its life ("none" before it is added,
                 \* "alive", "dying", "dead", "removed") and its instance id
                 \* (NoInstance while unset)
    started,     \* per instance id: the machine id StartInstance was given
    running,     \* the instances the provider holds
    envValid,    \* the environment configuration in the state is valid
    provRet,     \* what Wait and Stop returned for the current provisioner
    provPc,      \* the provisioner: "stopped", "failed" (it ended by itself),
                 \* "idle" (watching), "starting"
                 \* (in a pass), "recording" (in a pass, an instance started)
    provGen,     \* provisioners created: "none", "first", "later"
    provEnv,     \* the provisioner holds an environment made from a valid
                 \* configuration
    dirty,       \* a change notification awaits the provisioner
    toStart,     \* machines this pass is still to start
    toStop,      \* instances this pass is to stop
    pending,     \* the instance just started, its id not yet recorded
    passLog,     \* since the last pass began: "none" (no pass yet, or the
                 \* pass was cut short), "clean", "failed" (a call failed),
                 \* "changed" (the state or the configuration was changed)
    lastWrite,   \* the last write of an instance id: "none", "ok", "failed",
                 \* "lost" (the provisioner was stopped before it wrote)
    startIssued, \* machine ids StartInstance was called with
    stopIssued   \* instances StopInstances was called with

provVars == <<machines, started, running, envValid, provPc, provGen, provEnv,
              dirty, toStart, toStop, pending, lastWrite, passLog,
              startIssued, stopIssued, provRet>>

openStateVars == <<pwfile, entityPw, generated, osPc, data, password, stOpen,
                   osErr, tried, storedRes, saved, setPw, ranOnce>>
apiVars == <<apiPc, apiConn, newPassword, conf, disk, confAtCall, apiWrite,
             apiErr, apiGenerated>>
impVars == <<impPc, impArgs, impRanks, impMore>>
cmdVars == <<cmdPc, command, cmdCalls, cmdStderr, cmdStdout, cmdLog, cmdCode>>
doneVars == <<adPc, adErr, adSwap, adSwaps, adTools, adRet>>
closeVars == <<cwPc, cwWorker, cwKilled, cwErr, cwClosed, cwCloseErr, cwRet>>
libVars == <<impVars, cmdVars, doneVars, closeVars>>
extVars == <<openStateVars, apiVars, provVars, libVars>>

agentVars == <<tombState, tombReason, runPc, runRet, stopPc, stopRet, epoch,
               epochErr, runErr, observed, connOpen, pwChanged, swapRes, swapCalls,
               slept>>
taskVars == <<tasks, jobs, tState, tErr, stopCalled, waited, gPc, done, chosen,
              rtPc, waitIter, idx, logged, woke>>
vars == <<agentVars, taskVars, extVars>>

\* chosen := errInfo{index: -1}: task indexes start at 1 here, and 0 is none.
NoIndex == 0

\* runTasks has returned: its tasks, goroutines and channel are garbage.
ResetTasks ==
    /\ tasks' = <<>>
    /\ jobs' = <<>>
    /\ tState' = <<>>
    /\ tErr' = <<>>
    /\ stopCalled' = <<>>
    /\ waited' = <<>>
    /\ gPc' = <<>>
    /\ done' = <<>>
    /\ chosen' = [index |-> NoIndex, err |-> Nil]
    /\ rtPc' = "returned"
    /\ waitIter' = 0
    /\ idx' = 0
    /\ logged' = {}
    /\ woke' = woke

(***************************************************************************)
(* Passwords and the agent configuration.                                  *)
(***************************************************************************)
\* conf.InitialPassword, the passwords trivial.RandomPassword generates, and
\* the empty password "".
InitialPassword == [kind |-> "initial", n |-> 0]
RandomPassword(n) == [kind |-> "random", n |-> n]
NoPassword == [kind |-> "empty", n |-> 0]

\* The password file does not exist; the password file holds part of a
\* password (ioutil.WriteFile truncates the file and then writes).
NoFile == [kind |-> "nofile", n |-> 0]
Partial == [kind |-> "partial", n |-> 0]

\* Errors of openState and runOnce.
ErrUnauthorized == [kind |-> "unauthorized", id |-> 0]
ErrReadFile == Generic(20)
ErrOpen == Generic(21)
ErrRandom == Generic(22)
ErrSavePassword == Generic(23)
ErrEntity == Generic(24)
ErrRunOnce == Generic(25)
ErrOpenAPI == Generic(26)
ErrWriteConf == Generic(27)

\* The locals of one runOnce call before it starts.
OpenStateLocals ==
    /\ osPc = "read"
    /\ data = NoFile
    /\ password = NoPassword
    /\ stOpen = "none"
    /\ osErr = Nil
    /\ tried = <<>>
    /\ storedRes = "none"
    /\ saved = "none"
    /\ setPw = "none"
    /\ ranOnce = FALSE

\* A newly provisioned agent: no password file, and the state store accepts
\* the initial password.
OpenStateInit ==
    /\ pwfile = NoFile
    /\ entityPw = InitialPassword
    /\ generated = 0
    /\ OpenStateLocals

\* The configuration as read from the file, and openAPIState not yet called.
ApiInit ==
    /\ apiPc = "call"
    /\ apiConn = "none"
    /\ newPassword = NoPassword
    /\ conf = [StateInfoPassword |-> NoPassword,
               APIInfoPassword |-> NoPassword,
               OldPassword |-> InitialPassword]
    /\ disk = conf
    /\ confAtCall = conf
    /\ apiWrite = "none"
    /\ apiErr = Nil
    /\ apiGenerated = 0

\* No instance id: the machine's instance id is unset.
NoInstance == 0

\* The error of a provisioner whose state connection was closed.
ErrClosing == Generic(28)

\* No value returned yet.
Unset == [kind |-> "unset", id |-> 0]

\* Neither Wait nor Stop has returned.
NoResult == [wait |-> Unset, stop |-> Unset]

MachineIds == 1..MaxMachines

\* An empty state with a valid environment configuration, an empty provider
\* and no provisioner.
ProvInit ==
    /\ machines = [m \in MachineIds |-> [life |-> "none", inst |-> NoInstance]]
    /\ started = <<>>
    /\ running = {}
    /\ envValid = TRUE
    /\ provPc = "stopped"
    /\ provGen = "none"
    /\ provEnv = FALSE
    /\ dirty = FALSE
    /\ toStart = {}
    /\ toStop = {}
    /\ pending = NoInstance
    /\ lastWrite = "none"
    /\ passLog = "none"
    /\ startIssued = {}
    /\ stopIssued = {}
    /\ provRet = NoResult

\* No call of importance has been made.
ImpInit ==
    /\ impPc = "none"
    /\ impArgs = <<Nil, Nil, Nil>>
    /\ impRanks = <<0, 0, 0>>
    /\ impMore = [i \in 1..3 |-> [j \in 1..3 |-> FALSE]]

\* gnuflag.ErrHelp and cmd.ErrSilent are single values.
ErrHelp == [kind |-> "help", id |-> 0]
ErrSilent == [kind |-> "silent", id |-> 0]

\* Main has not been called.
CmdInit ==
    /\ cmdPc = "none"
    /\ command = [parse |-> Nil, init |-> Nil, run |-> Nil, writes |-> FALSE]
    /\ cmdCalls = <<>>
    /\ cmdStderr = <<>>
    /\ cmdStdout = <<>>
    /\ cmdLog = <<>>
    /\ cmdCode = 0

\* The error of a closer's Close.
ErrClose == Generic(29)

\* newCloseWorker(worker, closer): the worker runs, the closer is open.
CloseInit ==
    /\ cwPc = "none"
    /\ cwWorker = "running"
    /\ cwKilled = FALSE
    /\ cwErr = Nil
    /\ cwClosed = FALSE
    /\ cwCloseErr = Nil
    /\ cwRet = Nil

\* agentDone has not been called; the agent runs its first tools.
DoneInit ==
    /\ adPc = "none"
    /\ adErr = Nil
    /\ adSwap = Nil
    /\ adSwaps = 0
    /\ adTools = 0
    /\ adRet = Nil

Init ==
    /\ OpenStateInit
    /\ ApiInit
    /\ ProvInit
    /\ ImpInit
    /\ CmdInit
    /\ DoneInit
    /\ CloseInit
    /\ tombState = "alive"
    /\ tombReason = ErrStillAlive
    /\ runPc = "init"
    /\ runRet = Nil
    /\ stopPc = "idle"
    /\ stopRet = Nil
    /\ epoch = "none"
    /\ epochErr = Nil
    /\ runErr = Nil
    /\ observed = "none"
    /\ connOpen = FALSE
    /\ pwChanged = FALSE
    /\ swapRes = "none"
    /\ swapCalls = 0
    /\ slept = "none"
    /\ tasks = <<>>
    /\ jobs = <<>>
    /\ tState = <<>>
    /\ tErr = <<>>
    /\ stopCalled = <<>>
    /\ waited = <<>>
    /\ gPc = <<>>
    /\ done = <<>>
    /\ chosen = [index |-> NoIndex, err |-> Nil]
    /\ rtPc = "idle"
    /\ waitIter = 0
    /\ idx = 0
    /\ logged = {}
    /\ woke = "none"

(***************************************************************************)
(* The agent's tomb and the caller of MachineAgent.Stop.                   *)
(***************************************************************************)
\* a.tomb.Done(): the tomb is dead; its reason becomes nil if it was alive.
TombDone ==
    /\ tombState' = "dead"
    /\ tombReason' = TombKill(tombReason, Nil)

\* AgentStop with a bug: the tomb is killed with an error instead of nil.
AgentStopWithError ==
    /\ stopPc = "idle"
    /\ stopPc' = "waiting"
    /\ tombReason' = TombKill(tombReason, Generic(0))
    /\ tombState' = IF tombState = "alive" THEN "dying" ELSE tombState
    /\ UNCHANGED <<taskVars, runPc, runRet, stopRet, epoch, epochErr,
                   runErr, observed, connOpen, pwChanged, swapRes, swapCalls,
                   slept>>
    /\ UNCHANGED extVars

\* MachineAgent.Stop, first half: a.tomb.Kill(nil).
AgentStop ==
    /\ stopPc = "idle"
    /\ stopPc' = "waiting"
    /\ tombReason' = TombKill(tombReason, Nil)
    /\ tombState' = IF tombState = "alive" THEN "dying" ELSE tombState
    /\ UNCHANGED <<taskVars, runPc, runRet, stopRet, epoch, epochErr,
                   runErr, observed, connOpen, pwChanged, swapRes, swapCalls,
                   slept>>
    /\ UNCHANGED extVars

\* MachineAgent.Stop, second half: return a.tomb.Wait().
AgentStopReturn ==
    /\ stopPc = "waiting"
    /\ tombState = "dead"
    /\ stopPc' = "returned"
    /\ stopRet' = tombReason
    /\ UNCHANGED <<taskVars, tombState, tombReason, runPc, runRet,
                   epoch, epochErr, runErr, observed, connOpen, pwChanged,
                   swapRes, swapCalls,
                   slept>>
    /\ UNCHANGED extVars

\* A caller whose Stop has returned calls Stop again: a.tomb.Kill(nil).
AgentStopAgain ==
    /\ stopPc = "returned"
    /\ stopPc' = "again"
    /\ tombReason' = TombKill(tombReason, Nil)
    /\ tombState' = IF tombState = "alive" THEN "dying" ELSE tombState
    /\ UNCHANGED <<taskVars, runPc, runRet, stopRet, epoch, epochErr,
                   runErr, observed, connOpen, pwChanged, swapRes, swapCalls,
                   slept>>
    /\ UNCHANGED extVars

\* AgentStopAgainReturn with a bug: a Stop that finds the agent already
\* stopped returns nil.
AgentStopAgainReturnsNil ==
    /\ stopPc = "again"
    /\ tombState = "dead"
    /\ stopPc' = "returned"
    /\ stopRet' = Nil
    /\ UNCHANGED <<taskVars, tombState, tombReason, runPc, runRet,
                   epoch, epochErr, runErr, observed, connOpen, pwChanged,
                   swapRes, swapCalls, slept>>
    /\ UNCHANGED extVars

\* The later Stop returns: return a.tomb.Wait().
AgentStopAgainReturn ==
    /\ stopPc = "again"
    /\ tombState = "dead"
    /\ stopPc' = "returned"
    /\ stopRet' = tombReason
    /\ UNCHANGED <<taskVars, tombState, tombReason, runPc, runRet,
                   epoch, epochErr, runErr, observed, connOpen, pwChanged,
                   swapRes, swapCalls, slept>>
    /\ UNCHANGED extVars

(***************************************************************************)
(* MachineAgent.Run.                                                       *)
(***************************************************************************)
\* a.Conf.Read: on failure Run returns before the deferred tomb.Done is set up.
RunStart ==
    /\ runPc = "init"
    /\ \/ runPc' = "loop" /\ runRet' = runRet
       \/ runPc' = "returned" /\ runRet' = ErrConfRead
    /\ UNCHANGED <<taskVars, tombState, tombReason, stopPc, stopRet,
                   epoch, epochErr, runErr, observed, connOpen, pwChanged,
                   swapRes, swapCalls,
                   slept>>
    /\ UNCHANGED extVars

\* RunBeginEpoch with a bug: the loop has no condition.
RunBeginEpochUnconditional ==
    /\ runPc = "loop"
    /\ runPc' = "open"
    /\ epoch' = IF epoch = "none" THEN "first" ELSE "later"
    /\ epochErr' = Nil
    /\ runErr' = Nil
    /\ observed' = "none"
    /\ pwChanged' = FALSE
    /\ swapRes' = "none"
    /\ swapCalls' = 0
    /\ slept' = "none"
    /\ rtPc' = "idle"
    /\ woke' = "none"
    /\ UNCHANGED <<tasks, jobs, tState, tErr, stopCalled, waited, gPc, done, chosen,
                   waitIter, idx, logged, tombState, tombReason, runRet,
                   stopPc, stopRet, connOpen>>
    /\ UNCHANGED extVars

\* for a.tomb.Err() == tomb.ErrStillAlive { ... err := a.runOnce()
RunBeginEpoch ==
    /\ runPc = "loop"
    /\ tombReason = ErrStillAlive
    /\ runPc' = "open"
    /\ epoch' = IF epoch = "none" THEN "first" ELSE "later"
    /\ epochErr' = Nil
    /\ runErr' = Nil
    /\ observed' = "none"
    /\ pwChanged' = FALSE
    /\ swapRes' = "none"
    /\ swapCalls' = 0
    /\ slept' = "none"
    /\ rtPc' = "idle"
    /\ woke' = "none"
    /\ UNCHANGED <<tasks, jobs, tState, tErr, stopCalled, waited, gPc, done, chosen,
                   waitIter, idx, logged, tombState, tombReason, runRet,
                   stopPc, stopRet, connOpen>>
    /\ UNCHANGED extVars

\* The loop condition fails: return a.tomb.Err(), then the deferred Done.
RunLoopExit ==
    /\ runPc = "loop"
    /\ tombReason # ErrStillAlive
    /\ runPc' = "returned"
    /\ runRet' = tombReason
    /\ TombDone
    /\ UNCHANGED <<taskVars, stopPc, stopRet, epoch, epochErr, runErr,
                   observed, connOpen, pwChanged, swapRes, swapCalls,
                   slept>>
    /\ UNCHANGED extVars

\* runOnce: st, passwordChanged, err := a.Conf.OpenState()
RunOpenState ==
    /\ runPc = "open"
    /\ \/ /\ epochErr' = ErrOpenState
          /\ runPc' = "handle"
          /\ UNCHANGED <<connOpen, pwChanged>>
       \/ /\ connOpen' = TRUE
          /\ pwChanged' \in BOOLEAN
          /\ runPc' = "machine"
          /\ UNCHANGED epochErr
    /\ UNCHANGED <<taskVars, tombState, tombReason, runRet, stopPc,
                   stopRet, epoch, runErr, observed, swapRes, swapCalls,
                   slept>>
    /\ UNCHANGED extVars

\* RunMachine with a bug: only a machine that is not found counts as dead; a
\* machine whose life is Dead is run like a live one.
RunMachineIgnoresLife ==
    /\ runPc = "machine"
    /\ \/ /\ observed' = "notfound"
          /\ epochErr' = ErrDead
          /\ connOpen' = FALSE
          /\ pwChanged' = FALSE
          /\ runPc' = "handle"
       \/ /\ observed' = "error"
          /\ epochErr' = ErrMachine
          /\ connOpen' = FALSE
          /\ pwChanged' = FALSE
          /\ runPc' = "handle"
       \/ /\ observed' \in {"alive", "dead"}
          /\ runPc' = "setpw"
          /\ UNCHANGED <<epochErr, connOpen, pwChanged>>
    /\ UNCHANGED <<taskVars, tombState, tombReason, runRet, stopPc,
                   stopRet, epoch, runErr, swapRes, swapCalls,
                   slept>>
    /\ UNCHANGED extVars

\* runOnce: m, err := st.Machine(a.MachineId) and the two checks after it;
\* every return closes the connection (defer st.Close()).
RunMachine ==
    /\ runPc = "machine"
    /\ \/ /\ observed' \in {"dead", "notfound"}
          /\ epochErr' = ErrDead
          /\ connOpen' = FALSE
          /\ pwChanged' = FALSE
          /\ runPc' = "handle"
       \/ /\ observed' = "error"
          /\ epochErr' = ErrMachine
          /\ connOpen' = FALSE
          /\ pwChanged' = FALSE
          /\ runPc' = "handle"
       \/ /\ observed' = "alive"
          /\ runPc' = "setpw"
          /\ UNCHANGED <<epochErr, connOpen, pwChanged>>
    /\ UNCHANGED <<taskVars, tombState, tombReason, runRet, stopPc,
                   stopRet, epoch, runErr, swapRes, swapCalls,
                   slept>>
    /\ UNCHANGED extVars

\* runOnce: m.SetPassword fails.
RunSetPasswordFails ==
    /\ runPc = "setpw"
    /\ pwChanged
    /\ pwChanged' = FALSE
    /\ epochErr' = ErrSetPassword
    /\ connOpen' = FALSE
    /\ runPc' = "handle"
    /\ UNCHANGED <<taskVars, tombState, tombReason, runRet, stopPc,
                   stopRet, epoch, runErr, observed, swapRes, swapCalls,
                   slept>>
    /\ UNCHANGED extVars

\* runOnce: the password needed no change or was set; the task list is built
\* and runTasks starts one goroutine per task, each calling t.Wait().
RunStartTasks ==
    /\ runPc = "setpw"
    /\ runPc' = "tasks"
    /\ pwChanged' = FALSE
    /\ \E js \in JobLists :
          /\ jobs' = js
          /\ tasks' = BuildTasks(js)
    /\ tState' = [i \in 1..Len(tasks') |-> "running"]
    /\ tErr' = [i \in 1..Len(tasks') |-> Nil]
    /\ stopCalled' = [i \in 1..Len(tasks') |-> 0]
    /\ waited' = [i \in 1..Len(tasks') |-> FALSE]
    /\ gPc' = [i \in 1..Len(tasks') |-> "wait"]
    /\ done' = <<>>
    /\ chosen' = [index |-> NoIndex, err |-> Nil]
    /\ rtPc' = "waiting"
    /\ waitIter' = 0
    /\ idx' = 0
    /\ logged' = {}
    /\ woke' = "none"
    /\ UNCHANGED <<tombState, tombReason, runRet, stopPc, stopRet,
                   epoch, epochErr, runErr, observed, connOpen, swapRes,
                   swapCalls,
                   slept>>
    /\ UNCHANGED extVars

(***************************************************************************)
(* Tasks and runTasks.                                                     *)
(***************************************************************************)
\* The errors task i can die with.
TaskErrs(i) == {Nil, Generic(i), UpgradeReady(i), ErrDead}

\* A task finishes by itself.
TaskFinish(i) ==
    /\ i \in DOMAIN tasks
    /\ tState[i] = "running"
    /\ \E e \in TaskErrs(i) :
          /\ tState' = [tState EXCEPT ![i] = "dead"]
          /\ tErr' = [tErr EXCEPT ![i] = e]
    /\ UNCHANGED <<agentVars, tasks, jobs, stopCalled, waited, gPc, done,
                   chosen, rtPc, waitIter, idx, logged, woke>>
    /\ UNCHANGED extVars

\* DoneCap with a bug: the channel has room for one value less.
DoneCapShort == Len(tasks) - 1

\* done := make(chan errInfo, len(tasks))
DoneCap == Len(tasks)

\* go func() { done <- errInfo{i, t.Wait()} }()
\* The send blocks while done is full.
WaiterSend(i) ==
    /\ i \in DOMAIN tasks
    /\ gPc[i] = "wait"
    /\ tState[i] = "dead"
    /\ Len(done) < DoneCap
    /\ done' = Append(done, [index |-> i, err |-> tErr[i]])
    /\ gPc' = [gPc EXCEPT ![i] = "sent"]
    /\ UNCHANGED <<agentVars, tasks, jobs, tState, tErr, stopCalled,
                   waited, chosen, rtPc, waitIter, idx, logged, woke>>
    /\ UNCHANGED extVars

\* RtReceive with a bug: the loop ends at the first value received, nil or not.
RtReceiveEndsOnNil ==
    /\ rtPc = "waiting"
    /\ done # <<>>
    /\ done' = Tail(done)
    /\ waitIter' = waitIter + 1
    /\ chosen' = IF Head(done).err # Nil THEN Head(done) ELSE chosen
    /\ rtPc' = "stopping"
    /\ woke' = IF Head(done).err # Nil THEN "failed" ELSE "allNil"
    /\ idx' = 1
    /\ UNCHANGED <<agentVars, tasks, jobs, tState, tErr, stopCalled,
                   waited, gPc, logged>>
    /\ UNCHANGED extVars

\* RtReceive with a bug: a failure is chosen but does not end the loop.
RtReceiveGoesOn ==
    /\ rtPc = "waiting"
    /\ done # <<>>
    /\ done' = Tail(done)
    /\ waitIter' = waitIter + 1
    /\ chosen' = IF Head(done).err # Nil THEN Head(done) ELSE chosen
    /\ IF waitIter + 1 = Len(tasks)
         THEN /\ rtPc' = "stopping"
              /\ woke' = IF chosen'.err # Nil THEN "failed" ELSE "allNil"
              /\ idx' = 1
         ELSE rtPc' = "waiting" /\ woke' = woke /\ idx' = idx
    /\ UNCHANGED <<agentVars, tasks, jobs, tState, tErr, stopCalled,
                   waited, gPc, logged>>
    /\ UNCHANGED extVars

\* The waiting loop, case info := <-done: a failure is chosen and ends the
\* loop; after a nil the loop goes on, and ends once it has run len(tasks)
\* times.
RtReceive ==
    /\ rtPc = "waiting"
    /\ done # <<>>
    /\ done' = Tail(done)
    /\ waitIter' = waitIter + 1
    /\ IF Head(done).err # Nil
         THEN /\ chosen' = Head(done)
              /\ rtPc' = "stopping"
              /\ woke' = "failed"
              /\ idx' = 1
         ELSE /\ chosen' = chosen
              /\ IF waitIter + 1 = Len(tasks)
                   THEN rtPc' = "stopping" /\ woke' = "allNil" /\ idx' = 1
                   ELSE rtPc' = "waiting" /\ woke' = woke /\ idx' = idx
    /\ UNCHANGED <<agentVars, tasks, jobs, tState, tErr, stopCalled,
                   waited, gPc, logged>>
    /\ UNCHANGED extVars

\* RtStopSignal with a bug: the select has no stop case.
RtStopSignalMissing ==
    /\ rtPc = "waiting"
    /\ tombState # "alive"
    /\ FALSE
    /\ UNCHANGED vars
    /\ UNCHANGED extVars

\* The waiting loop, case <-stop (stop is a.tomb.Dying()).
RtStopSignal ==
    /\ rtPc = "waiting"
    /\ tombState # "alive"
    /\ rtPc' = "stopping"
    /\ woke' = "stop"
    /\ idx' = 1
    /\ UNCHANGED <<agentVars, tasks, jobs, tState, tErr, stopCalled,
                   waited, gPc, done, chosen, waitIter, logged>>
    /\ UNCHANGED extVars

\* Replaces with a bug: any error a Stop returns replaces the chosen one.
ReplacesAnyError(err, chosenErr) ==
    err # Nil

\* Replaces with a bug: an upgrade error is treated like any other error.
ReplacesOnlyWhenNoneChosen(err, chosenErr) ==
    err # Nil /\ chosenErr = Nil

\* isUpgraded(err) || err != nil && chosen.err == nil
Replaces(err, chosenErr) ==
    isUpgraded(err) \/ (err # Nil /\ chosenErr = Nil)

\* RtStop with a bug: Stop is not called on a task that has already finished.
RtStopSkipsFinished ==
    /\ rtPc = "stopping"
    /\ IF tState[idx] = "running"
         THEN \E e \in TaskErrs(idx) :
                /\ tState' = [tState EXCEPT ![idx] = "dead"]
                /\ tErr' = [tErr EXCEPT ![idx] = e]
                /\ chosen' = IF Replaces(e, chosen.err)
                              THEN [index |-> idx, err |-> e]
                              ELSE chosen
                /\ stopCalled' = [stopCalled EXCEPT ![idx] = @ + 1]
         ELSE UNCHANGED <<tState, tErr, chosen, stopCalled>>
    /\ IF idx = Len(tasks)
         THEN rtPc' = "logging" /\ idx' = 1
         ELSE rtPc' = rtPc /\ idx' = idx + 1
    /\ UNCHANGED <<agentVars, tasks, jobs, waited, gPc, done, waitIter,
                   logged, woke>>
    /\ UNCHANGED extVars

\* The stopping loop: one t.Stop().  Stop kills a running task, which dies
\* with some error; a dead task's Stop returns the error it died with.
RtStop ==
    /\ rtPc = "stopping"
    /\ \E e \in (IF tState[idx] = "running" THEN TaskErrs(idx)
                                           ELSE {tErr[idx]}) :
          /\ tState' = [tState EXCEPT ![idx] = "dead"]
          /\ tErr' = [tErr EXCEPT ![idx] = e]
          /\ chosen' = IF Replaces(e, chosen.err)
                        THEN [index |-> idx, err |-> e]
                        ELSE chosen
    /\ stopCalled' = [stopCalled EXCEPT ![idx] = @ + 1]
    /\ IF idx = Len(tasks)
         THEN rtPc' = "logging" /\ idx' = 1
         ELSE rtPc' = rtPc /\ idx' = idx + 1
    /\ UNCHANGED <<agentVars, tasks, jobs, waited, gPc, done, waitIter,
                   logged, woke>>
    /\ UNCHANGED extVars

\* RtLog with a bug: a more important error found by the last loop is chosen.
RtLogChooses ==
    /\ rtPc = "logging"
    /\ \/ /\ idx = chosen.index
          /\ UNCHANGED <<waited, logged, chosen>>
       \/ /\ idx # chosen.index
          /\ tState[idx] = "dead"
          /\ waited' = [waited EXCEPT ![idx] = TRUE]
          /\ logged' = IF tErr[idx] # Nil THEN logged \cup {idx} ELSE logged
          /\ chosen' = IF moreImportant(tErr[idx], chosen.err)
                        THEN [index |-> idx, err |-> tErr[idx]]
                        ELSE chosen
    /\ IF idx = Len(tasks)
         THEN rtPc' = "ret" /\ idx' = 0
         ELSE rtPc' = rtPc /\ idx' = idx + 1
    /\ UNCHANGED <<agentVars, tasks, jobs, tState, tErr, stopCalled, gPc,
                   done, waitIter, woke>>
    /\ UNCHANGED extVars

\* The last loop: Wait on every task but the chosen one, logging its error.
RtLog ==
    /\ rtPc = "logging"
    /\ \/ /\ idx = chosen.index
          /\ UNCHANGED <<waited, logged>>
       \/ /\ idx # chosen.index
          /\ tState[idx] = "dead"
          /\ waited' = [waited EXCEPT ![idx] = TRUE]
          /\ logged' = IF tErr[idx] # Nil THEN logged \cup {idx} ELSE logged
    /\ IF idx = Len(tasks)
         THEN rtPc' = "ret" /\ idx' = 0
         ELSE rtPc' = rtPc /\ idx' = idx + 1
    /\ UNCHANGED <<agentVars, tasks, jobs, tState, tErr, stopCalled, gPc,
                   done, chosen, waitIter, woke>>
    /\ UNCHANGED extVars

\* RunTasksReturn with a bug: runOnce returns without closing the connection.
RunTasksReturnKeepsConn ==
    /\ runPc = "tasks"
    /\ rtPc = "ret"
    /\ epochErr' = chosen.err
    /\ connOpen' = connOpen
    /\ runPc' = "handle"
    /\ ResetTasks
    /\ UNCHANGED <<tombState, tombReason, runRet, stopPc,
                   stopRet, epoch, runErr, observed, pwChanged, swapRes,
                   swapCalls, slept>>
    /\ UNCHANGED extVars

\* return chosen.err, to runOnce, which closes the connection and returns it.
RunTasksReturn ==
    /\ runPc = "tasks"
    /\ rtPc = "ret"
    /\ epochErr' = chosen.err
    /\ connOpen' = FALSE
    /\ runPc' = "handle"
    /\ ResetTasks
    /\ UNCHANGED <<tombState, tombReason, runRet, stopPc,
                   stopRet, epoch, runErr, observed, pwChanged, swapRes,
                   swapCalls,
                   slept>>
    /\ UNCHANGED extVars

(***************************************************************************)
(* MachineAgent.Run after runOnce has returned.                            *)
(***************************************************************************)
\* RunHandle with a bug: an error that is neither an upgrade nor ErrDead ends
\* the loop instead of being retried.
RunHandleErrorIsFatal ==
    /\ runPc = "handle"
    /\ \/ /\ isUpgraded(epochErr)
          /\ swapCalls' = swapCalls + 1
          /\ \/ /\ swapRes' = "ok"
                /\ runRet' = epochErr
                /\ runPc' = "returned"
                /\ TombDone
                /\ UNCHANGED runErr
             \/ /\ swapRes' = "failed"
                /\ runErr' = ErrChangeTools
                /\ runPc' = "select"
                /\ UNCHANGED <<runRet, tombState, tombReason>>
       \/ /\ epochErr = ErrDead
          /\ runRet' = Nil
          /\ runPc' = "returned"
          /\ TombDone
          /\ UNCHANGED <<runErr, swapRes, swapCalls>>
       \/ /\ ~isUpgraded(epochErr)
          /\ epochErr # ErrDead
          /\ runErr' = epochErr
          /\ IF epochErr = Nil
               THEN runPc' = "select" /\ UNCHANGED <<runRet, tombState, tombReason>>
               ELSE runPc' = "returned" /\ runRet' = epochErr /\ TombDone
          /\ UNCHANGED <<swapRes, swapCalls>>
    /\ UNCHANGED <<taskVars, stopPc, stopRet, epoch, epochErr,
                   observed, connOpen, pwChanged,
                   slept>>
    /\ UNCHANGED extVars

\* RunHandle with a bug: after a successful swap the loop goes on to the
\* retry instead of returning the upgrade error.
RunHandleSwapGoesOn ==
    /\ runPc = "handle"
    /\ \/ /\ isUpgraded(epochErr)
          /\ swapCalls' = swapCalls + 1
          /\ \/ /\ swapRes' = "ok"
                /\ runErr' = Nil
             \/ /\ swapRes' = "failed"
                /\ runErr' = ErrChangeTools
          /\ runPc' = "select"
          /\ UNCHANGED <<runRet, tombState, tombReason>>
       \/ /\ epochErr = ErrDead
          /\ runRet' = Nil
          /\ runPc' = "returned"
          /\ TombDone
          /\ UNCHANGED <<runErr, swapRes, swapCalls>>
       \/ /\ ~isUpgraded(epochErr)
          /\ epochErr # ErrDead
          /\ runErr' = epochErr
          /\ runPc' = "select"
          /\ UNCHANGED <<runRet, tombState, tombReason, swapRes, swapCalls>>
    /\ UNCHANGED <<taskVars, stopPc, stopRet, epoch, epochErr,
                   observed, connOpen, pwChanged,
                   slept>>
    /\ UNCHANGED extVars

\* if ug, ok := err.(*UpgradeReadyError); ok { ... ChangeAgentTools ... }
\* if err == worker.ErrDead { return nil }
RunHandle ==
    /\ runPc = "handle"
    /\ \/ /\ isUpgraded(epochErr)
          /\ swapCalls' = swapCalls + 1
          /\ \/ /\ swapRes' = "ok"
                /\ runRet' = epochErr
                /\ runPc' = "returned"
                /\ TombDone
                /\ UNCHANGED runErr
             \/ /\ swapRes' = "failed"
                /\ runErr' = ErrChangeTools
                /\ runPc' = "select"
                /\ UNCHANGED <<runRet, tombState, tombReason>>
       \/ /\ epochErr = ErrDead
          /\ runRet' = Nil
          /\ runPc' = "returned"
          /\ TombDone
          /\ UNCHANGED <<runErr, swapRes, swapCalls>>
       \/ /\ ~isUpgraded(epochErr)
          /\ epochErr # ErrDead
          /\ runErr' = epochErr
          /\ runPc' = "select"
          /\ UNCHANGED <<runRet, tombState, tombReason, swapRes, swapCalls>>
    /\ UNCHANGED <<taskVars, stopPc, stopRet, epoch, epochErr,
                   observed, connOpen, pwChanged,
                   slept>>
    /\ UNCHANGED extVars

\* The select is entered: a tomb that is already dying is seen at once
\* (the timer has only just been started), and a.tomb.Kill(err) follows.
RunSelect ==
    /\ runPc = "select"
    /\ IF tombState # "alive"
         THEN /\ tombReason' = TombKill(tombReason, runErr)
              /\ slept' = "stopped"
              /\ runPc' = "loop"
         ELSE /\ tombReason' = tombReason
              /\ slept' = slept
              /\ runPc' = "sleep"
    /\ UNCHANGED <<taskVars, tombState, runRet, stopPc, stopRet,
                   epoch, epochErr, runErr, observed, connOpen, pwChanged,
                   swapRes, swapCalls>>
    /\ UNCHANGED extVars

\* case <-a.tomb.Dying(): a.tomb.Kill(err)
\* (isleep: case <-stop: return false)
RunSleepStopped ==
    /\ runPc = "sleep"
    /\ tombState # "alive"
    /\ tombReason' = TombKill(tombReason, runErr)
    /\ slept' = "stopped"
    /\ runPc' = "loop"
    /\ UNCHANGED <<taskVars, tombState, runRet, stopPc, stopRet,
                   epoch, epochErr, runErr, observed, connOpen, pwChanged,
                   swapRes, swapCalls>>
    /\ UNCHANGED extVars

\* RunSleepTimer with a bug: the wait is a plain sleep, which a stop that
\* arrives meanwhile does not end.
RunSleepTimerIgnoresStop ==
    /\ runPc = "sleep"
    /\ slept' = "full"
    /\ runPc' = "loop"
    /\ UNCHANGED <<taskVars, tombState, tombReason, runRet, stopPc,
                   stopRet, epoch, epochErr, runErr, observed, connOpen,
                   pwChanged, swapRes, swapCalls>>
    /\ UNCHANGED extVars

\* case <-time.After(retryDelay)  (isleep: return true)
\* A goroutine blocked in a select is woken by the first of its channels to
\* become ready: the timer case is taken only if no stop came before it.
RunSleepTimer ==
    /\ runPc = "sleep"
    /\ tombState = "alive"
    /\ slept' = "full"
    /\ runPc' = "loop"
    /\ UNCHANGED <<taskVars, tombState, tombReason, runRet, stopPc,
                   stopRet, epoch, epochErr, runErr, observed, connOpen,
                   pwChanged, swapRes, swapCalls>>
    /\ UNCHANGED extVars

Next ==
    \/ AgentStop
    \/ AgentStopReturn
    \/ AgentStopAgain
    \/ AgentStopAgainReturn
    \/ RunStart
    \/ RunBeginEpoch
    \/ RunLoopExit
    \/ RunOpenState
    \/ RunMachine
    \/ RunSetPasswordFails
    \/ RunStartTasks
    \/ \E i \in DOMAIN tasks : TaskFinish(i)
    \/ \E i \in DOMAIN tasks : WaiterSend(i)
    \/ RtReceive
    \/ RtStopSignal
    \/ RtStop
    \/ RtLog
    \/ RunTasksReturn
    \/ RunHandle
    \/ RunSelect
    \/ RunSleepStopped
    \/ RunSleepTimer

Spec == Init /\ [][Next]_vars

\* The steps of the goroutine that runs Run: the Go scheduler runs it
\* whenever it can run, and the retry timer fires.
RunThread ==
    \/ RunBeginEpoch
    \/ RunLoopExit
    \/ RunOpenState
    \/ RunMachine
    \/ RunSetPasswordFails
    \/ RunStartTasks
    \/ RtReceive
    \/ RtStopSignal
    \/ RtStop
    \/ RtLog
    \/ RunTasksReturn
    \/ RunHandle
    \/ RunSelect
    \/ RunSleepStopped
    \/ RunSleepTimer

FairSpec ==
    /\ Spec
    /\ WF_vars(RunThread)

\* The goroutines of runTasks run too: one that can send does.
FairTaskSpec ==
    /\ FairSpec
    /\ WF_vars(\E i \in DOMAIN tasks : WaiterSend(i))

(***************************************************************************)
(* The generic run loop: RunLoop, runOnce and openState.  The agent process *)
(* may crash anywhere; the password file and the state store outlive it.    *)
(***************************************************************************)
\* A runOnce call begins: its locals are new.
ResetLocals ==
    /\ osPc' = "read"
    /\ data' = NoFile
    /\ password' = NoPassword
    /\ stOpen' = "none"
    /\ osErr' = Nil
    /\ tried' = <<>>
    /\ storedRes' = "none"
    /\ saved' = "none"
    /\ setPw' = "none"
    /\ ranOnce' = FALSE

\* data, err := ioutil.ReadFile(pwfile); an error other than "not exist" is
\* returned.
OsReadFile ==
    /\ osPc = "read"
    /\ \/ /\ osErr' = ErrReadFile
          /\ osPc' = "returned"
          /\ data' = data
       \/ /\ pwfile = NoFile
          /\ data' = NoFile
          /\ osPc' = "openInitial"
          /\ osErr' = osErr
       \/ /\ pwfile # NoFile
          /\ data' = pwfile
          /\ osPc' = "openStored"
          /\ osErr' = osErr
    /\ UNCHANGED <<pwfile, entityPw, generated, password, stOpen, tried,
                   storedRes, saved, setPw, ranOnce>>
    /\ UNCHANGED <<agentVars, taskVars, apiVars, provVars, libVars>>

\* OsOpenStored with a bug: after a connection with the stored password a
\* new password is generated all the same.
OsOpenStoredRotates ==
    /\ osPc = "openStored"
    /\ tried' = Append(tried, "stored")
    /\ \/ /\ data = entityPw
          /\ storedRes' = "ok"
          /\ stOpen' = "open"
          /\ osPc' = "random"
          /\ osErr' = osErr
       \/ /\ data # entityPw
          /\ storedRes' = "unauthorized"
          /\ stOpen' = stOpen
          /\ osPc' = "openInitial"
          /\ osErr' = osErr
       \/ /\ storedRes' = "error"
          /\ stOpen' = stOpen
          /\ osPc' = "returned"
          /\ osErr' = ErrOpen
    /\ UNCHANGED <<pwfile, entityPw, generated, data, password, saved,
                   setPw, ranOnce>>
    /\ UNCHANGED <<agentVars, taskVars, apiVars, provVars, libVars>>

\* OsOpenStored with a bug: any failure to open with the stored password is
\* followed by an attempt with the initial password.
OsOpenStoredAlwaysFallsBack ==
    /\ osPc = "openStored"
    /\ tried' = Append(tried, "stored")
    /\ \/ /\ data = entityPw
          /\ storedRes' = "ok"
          /\ stOpen' = "open"
          /\ osPc' = "entity"
       \/ /\ data # entityPw
          /\ storedRes' = "unauthorized"
          /\ stOpen' = stOpen
          /\ osPc' = "openInitial"
       \/ /\ storedRes' = "error"
          /\ stOpen' = stOpen
          /\ osPc' = "openInitial"
    /\ UNCHANGED <<pwfile, entityPw, generated, data, password, osErr, saved,
                   setPw, ranOnce>>
    /\ UNCHANGED <<agentVars, taskVars, apiVars, provVars, libVars>>

\* info.Password = string(data); st, err := state.Open(&info): success
\* returns (st, "", nil); ErrUnauthorized falls through to the initial
\* password; any other error is returned.
OsOpenStored ==
    /\ osPc = "openStored"
    /\ tried' = Append(tried, "stored")
    /\ \/ /\ data = entityPw
          /\ storedRes' = "ok"
          /\ stOpen' = "open"
          /\ osPc' = "entity"
          /\ osErr' = osErr
       \/ /\ data # entityPw
          /\ storedRes' = "unauthorized"
          /\ stOpen' = stOpen
          /\ osPc' = "openInitial"
          /\ osErr' = osErr
       \/ /\ storedRes' = "error"
          /\ stOpen' = stOpen
          /\ osPc' = "returned"
          /\ osErr' = ErrOpen
    /\ UNCHANGED <<pwfile, entityPw, generated, data, password, saved,
                   setPw, ranOnce>>
    /\ UNCHANGED <<agentVars, taskVars, apiVars, provVars, libVars>>

\* info.Password = conf.InitialPassword; st, err = state.Open(&info)
OsOpenInitial ==
    /\ osPc = "openInitial"
    /\ tried' = Append(tried, "initial")
    /\ \/ /\ entityPw = InitialPassword
          /\ stOpen' = "open"
          /\ osPc' = "random"
          /\ osErr' = osErr
       \/ /\ entityPw # InitialPassword
          /\ stOpen' = stOpen
          /\ osPc' = "returned"
          /\ osErr' = ErrUnauthorized
       \/ /\ stOpen' = stOpen
          /\ osPc' = "returned"
          /\ osErr' = ErrOpen
    /\ UNCHANGED <<pwfile, entityPw, generated, data, password, storedRes,
                   saved, setPw, ranOnce>>
    /\ UNCHANGED <<agentVars, taskVars, apiVars, provVars, libVars>>

\* password, err = trivial.RandomPassword(); on error st is closed.
OsRandomPassword ==
    /\ osPc = "random"
    /\ \/ /\ generated < MaxPasswords
          /\ generated' = generated + 1
          /\ password' = RandomPassword(generated + 1)
          /\ osPc' = "write"
          /\ UNCHANGED <<stOpen, osErr>>
       \/ /\ stOpen' = "closed"
          /\ osErr' = ErrRandom
          /\ osPc' = "returned"
          /\ UNCHANGED <<generated, password>>
    /\ UNCHANGED <<pwfile, entityPw, data, tried, storedRes, saved, setPw,
                   ranOnce>>
    /\ UNCHANGED <<agentVars, taskVars, apiVars, provVars, libVars>>

\* OsWriteFile with a bug: the new password is returned without having been
\* written.
OsWriteFileSkipped ==
    /\ osPc = "write"
    /\ saved' = "ok"
    /\ osPc' = "entity"
    /\ UNCHANGED <<pwfile, password, stOpen, osErr>>
    /\ UNCHANGED <<entityPw, generated, data, tried, storedRes, setPw, ranOnce>>
    /\ UNCHANGED <<agentVars, taskVars, apiVars, provVars, libVars>>

\* ioutil.WriteFile(pwfile, []byte(password), 0600): on success openState
\* returns (st, password, nil); on failure the file is as it was or holds
\* part of the password, st is closed and an error is returned.
OsWriteFile ==
    /\ osPc = "write"
    /\ \/ /\ pwfile' = password
          /\ saved' = "ok"
          /\ osPc' = "entity"
          /\ UNCHANGED <<password, stOpen, osErr>>
       \/ /\ pwfile' \in {pwfile, Partial}
          /\ saved' = "failed"
          /\ stOpen' = "closed"
          /\ password' = NoPassword
          /\ osErr' = ErrSavePassword
          /\ osPc' = "returned"
    /\ UNCHANGED <<entityPw, generated, data, tried, storedRes, setPw, ranOnce>>
    /\ UNCHANGED <<agentVars, taskVars, apiVars, provVars, libVars>>

\* runOnce: entity, err := a.Entity(st); a dead or missing entity gives
\* worker.ErrDead; every return closes st (defer st.Close()).
RoEntity ==
    /\ osPc = "entity"
    /\ \/ /\ osErr' \in {ErrDead, ErrEntity}
          /\ stOpen' = "closed"
          /\ osPc' = "returned"
       \/ /\ osPc' = "setpw"
          /\ UNCHANGED <<stOpen, osErr>>
    /\ UNCHANGED <<pwfile, entityPw, generated, data, password, tried,
                   storedRes, saved, setPw, ranOnce>>
    /\ UNCHANGED <<agentVars, taskVars, apiVars, provVars, libVars>>

\* RoSetPassword with a bug: the entity is given a password of its own
\* making, not the one openState saved.
RoSetPasswordOther ==
    /\ osPc = "setpw"
    /\ IF password # NoPassword
         THEN /\ entityPw' = RandomPassword(MaxPasswords + 1)
              /\ setPw' = "ok"
         ELSE UNCHANGED <<entityPw, setPw>>
    /\ osPc' = "runonce"
    /\ UNCHANGED <<stOpen, osErr>>
    /\ UNCHANGED <<pwfile, generated, data, password, tried, storedRes, saved,
                   ranOnce>>
    /\ UNCHANGED <<agentVars, taskVars, apiVars, provVars, libVars>>

\* runOnce: if password != "" { entity.SetPassword(password) }.  A call that
\* returns an error may or may not have changed the password in the store.
RoSetPassword ==
    /\ osPc = "setpw"
    /\ IF password # NoPassword
         THEN \/ /\ entityPw' = password
                 /\ setPw' = "ok"
                 /\ osPc' = "runonce"
                 /\ UNCHANGED <<stOpen, osErr>>
              \/ /\ entityPw' \in {entityPw, password}
                 /\ setPw' = "failed"
                 /\ stOpen' = "closed"
                 /\ osErr' = ErrSetPassword
                 /\ osPc' = "returned"
         ELSE /\ osPc' = "runonce"
              /\ UNCHANGED <<entityPw, setPw, stOpen, osErr>>
    /\ UNCHANGED <<pwfile, generated, data, password, tried, storedRes, saved,
                   ranOnce>>
    /\ UNCHANGED <<agentVars, taskVars, apiVars, provVars, libVars>>

\* runOnce: return a.RunOnce(st, entity): the agent's tasks run on st until
\* they end with some error; then st is closed.
RoRunOnce ==
    /\ osPc = "runonce"
    /\ ranOnce' = TRUE
    /\ osErr' \in {Nil, ErrRunOnce}
    /\ stOpen' = "closed"
    /\ osPc' = "returned"
    /\ UNCHANGED <<pwfile, entityPw, generated, data, password, tried,
                   storedRes, saved, setPw>>
    /\ UNCHANGED <<agentVars, taskVars, apiVars, provVars, libVars>>

\* RunLoop: runOnce returned an error other than worker.ErrDead (an upgrade
\* apart); after the retry delay runOnce is called again.
LoopRetry ==
    /\ osPc = "returned"
    /\ osErr # ErrDead
    /\ ResetLocals
    /\ UNCHANGED <<pwfile, entityPw, generated>>
    /\ UNCHANGED <<agentVars, taskVars, apiVars, provVars, libVars>>

\* The process dies (also: RunLoop has returned and the process has ended)
\* and is started again: what it held in memory is lost and its connection
\* is gone.  A crash inside WriteFile may leave part of the password.
Crash ==
    /\ pwfile' \in (IF osPc = "write" THEN {pwfile, Partial} ELSE {pwfile})
    /\ ResetLocals
    /\ UNCHANGED <<entityPw, generated>>
    /\ UNCHANGED <<agentVars, taskVars, apiVars, provVars, libVars>>

(***************************************************************************)
(* openAPIState.                                                           *)
(***************************************************************************)
\* st, newPassword, err := c.OpenAPI(api.DialOpts{}): an error, or a
\* connection with an empty or a new password.
ApiOpen ==
    /\ apiPc = "call"
    /\ confAtCall' = conf
    /\ apiWrite' = "none"
    /\ \/ /\ apiErr' = ErrOpenAPI
          /\ apiPc' = "returned"
          /\ apiConn' = "none"
          /\ newPassword' = NoPassword
          /\ UNCHANGED apiGenerated
       \/ /\ apiErr' = Nil
          /\ apiPc' = "entity"
          /\ apiConn' = "open"
          /\ \/ /\ newPassword' = NoPassword
                /\ UNCHANGED apiGenerated
             \/ /\ apiGenerated < MaxPasswords
                /\ apiGenerated' = apiGenerated + 1
                /\ newPassword' = RandomPassword(apiGenerated + 1)
    /\ UNCHANGED <<conf, disk>>
    /\ UNCHANGED <<agentVars, taskVars, openStateVars, provVars, libVars>>

\* entity, err := a.APIEntity(st): not found or dead gives
\* worker.ErrTerminateAgent; on any error st is closed.  With no new
\* password openAPIState returns here.
ApiEntity ==
    /\ apiPc = "entity"
    /\ \/ /\ apiErr' \in {ErrDead, ErrEntity}
          /\ apiConn' = "closed"
          /\ apiPc' = "returned"
       \/ /\ apiErr' = Nil
          /\ apiConn' = apiConn
          /\ apiPc' = IF newPassword = NoPassword THEN "returned" ELSE "write"
    /\ UNCHANGED <<newPassword, conf, disk, confAtCall, apiWrite, apiGenerated>>
    /\ UNCHANGED <<agentVars, taskVars, openStateVars, provVars, libVars>>

\* c1, the copy of *c with its own StateInfo and APIInfo, holding the new
\* password.
ConfCopy(c, pw) ==
    [c EXCEPT !.OldPassword = c.StateInfoPassword,
              !.StateInfoPassword = pw,
              !.APIInfoPassword = pw]

\* ApiWrite with a bug: the new password is set in *c itself, not in a copy.
ApiWriteInPlace ==
    /\ apiPc = "write"
    /\ conf' = ConfCopy(conf, newPassword)
    /\ \/ /\ disk' = conf'
          /\ apiWrite' = "ok"
          /\ apiErr' = Nil
       \/ /\ disk' = disk
          /\ apiWrite' = "failed"
          /\ apiErr' = ErrWriteConf
    /\ apiPc' = "returned"
    /\ UNCHANGED <<apiConn, newPassword, confAtCall, apiGenerated>>
    /\ UNCHANGED <<agentVars, taskVars, openStateVars, provVars, libVars>>

\* if err := c1.Write(); err != nil { return nil, nil, err }; *c = c1
\* The write replaces the file or leaves it as it was.  On failure st is
\* not closed.
ApiWrite ==
    /\ apiPc = "write"
    /\ \/ /\ disk' = ConfCopy(conf, newPassword)
          /\ conf' = ConfCopy(conf, newPassword)
          /\ apiWrite' = "ok"
          /\ apiErr' = Nil
       \/ /\ disk' = disk
          /\ conf' = conf
          /\ apiWrite' = "failed"
          /\ apiErr' = ErrWriteConf
    /\ apiPc' = "returned"
    /\ UNCHANGED <<apiConn, newPassword, confAtCall, apiGenerated>>
    /\ UNCHANGED <<agentVars, taskVars, openStateVars, provVars, libVars>>

\* The caller is done with what openAPIState returned and, later, calls it
\* again (the runner above it keeps on retrying).
ApiCallAgain ==
    /\ apiPc = "returned"
    /\ apiPc' = "call"
    /\ apiConn' = "none"
    /\ newPassword' = NoPassword
    /\ apiWrite' = "none"
    /\ apiErr' = Nil
    /\ UNCHANGED <<conf, disk, confAtCall, apiGenerated>>
    /\ UNCHANGED <<agentVars, taskVars, openStateVars, provVars, libVars>>

CredNext ==
    \/ OsReadFile
    \/ OsOpenStored
    \/ OsOpenInitial
    \/ OsRandomPassword
    \/ OsWriteFile
    \/ RoEntity
    \/ RoSetPassword
    \/ RoRunOnce
    \/ LoopRetry
    \/ Crash
    \/ ApiOpen
    \/ ApiEntity
    \/ ApiWrite
    \/ ApiCallAgain

CredSpec == Init /\ [][CredNext]_vars

(***************************************************************************)
(* The provisioner over the state and the provider.                        *)
(***************************************************************************)
\* There is no running provisioner: none was created, or the last one was
\* stopped or ended by itself.
Ended == provPc \in {"stopped", "failed"}

\* The error the provisioner's tomb holds once it has ended.
ProvReason == IF provPc = "failed" THEN ErrClosing ELSE Nil

\* The machine's record exists and is not Dead.
Live(m) == machines[m].life \in {"alive", "dying"}

\* The instance is the recorded instance of a live machine.
Known(i) == \E m \in MachineIds : Live(m) /\ machines[m].inst = i

\* Alive machines with no instance id.
Unprovisioned ==
    {m \in MachineIds :
        machines[m].life = "alive" /\ machines[m].inst = NoInstance}

\* Provider instances with no live machine that records them.
UnknownInstances == {i \in running : ~Known(i)}

\* The record of what happened since the last pass began, after a change of
\* the state or of the configuration.
Changed == IF passLog = "none" THEN "none" ELSE "changed"

\* The same record after a call that failed.
Failed == IF passLog = "clean" THEN "failed" ELSE passLog

\* A change of the state reaches the watches of a running provisioner.
Notified == IF ~Ended THEN TRUE ELSE dirty

\* s.st.AddMachine(): machine ids are given out in order.
AddMachine ==
    /\ \E m \in MachineIds :
          /\ machines[m].life = "none"
          /\ \A k \in MachineIds : k < m => machines[k].life # "none"
          /\ machines' = [machines EXCEPT ![m].life = "alive"]
    /\ dirty' = Notified
    /\ passLog' = Changed
    /\ UNCHANGED <<started, running, envValid, provPc, provGen, provEnv,
                   toStart, toStop, pending, lastWrite, startIssued, stopIssued>>
    /\ UNCHANGED provRet
    /\ UNCHANGED <<agentVars, taskVars, openStateVars, apiVars, libVars>>

\* A machine's life advances: Alive to Dying, Dying to Dead.
AdvanceLife ==
    /\ \E m \in MachineIds :
          /\ Live(m)
          /\ machines' = [machines EXCEPT ![m].life =
                              IF @ = "alive" THEN "dying" ELSE "dead"]
    /\ dirty' = Notified
    /\ passLog' = Changed
    /\ UNCHANGED <<started, running, envValid, provPc, provGen, provEnv,
                   toStart, toStop, pending, lastWrite, startIssued, stopIssued>>
    /\ UNCHANGED provRet
    /\ UNCHANGED <<agentVars, taskVars, openStateVars, apiVars, libVars>>

\* s.st.RemoveMachine(m.Id())
RemoveMachine ==
    /\ \E m \in MachineIds :
          /\ machines[m].life \in {"alive", "dying", "dead"}
          /\ machines' = [machines EXCEPT ![m].life = "removed"]
    /\ dirty' = Notified
    /\ passLog' = Changed
    /\ UNCHANGED <<started, running, envValid, provPc, provGen, provEnv,
                   toStart, toStop, pending, lastWrite, startIssued, stopIssued>>
    /\ UNCHANGED provRet
    /\ UNCHANGED <<agentVars, taskVars, openStateVars, apiVars, libVars>>

\* s.invalidateEnvironment()
invalidateEnvironment ==
    /\ envValid
    /\ envValid' = FALSE
    /\ dirty' = Notified
    /\ passLog' = Changed
    /\ UNCHANGED <<machines, started, running, provPc, provGen, provEnv,
                   toStart, toStop, pending, lastWrite, startIssued, stopIssued>>
    /\ UNCHANGED provRet
    /\ UNCHANGED <<agentVars, taskVars, openStateVars, apiVars, libVars>>

\* s.fixEnvironment()
fixEnvironment ==
    /\ ~envValid
    /\ envValid' = TRUE
    /\ dirty' = Notified
    /\ passLog' = Changed
    /\ UNCHANGED <<machines, started, running, provPc, provGen, provEnv,
                   toStart, toStop, pending, lastWrite, startIssued, stopIssued>>
    /\ UNCHANGED provRet
    /\ UNCHANGED <<agentVars, taskVars, openStateVars, apiVars, libVars>>

\* p, err := NewProvisioner(s.zkInfo): the new provisioner knows nothing and
\* makes its first pass without waiting for a change.
NewProvisioner ==
    /\ Ended
    /\ provPc' = "idle"
    /\ provGen' = IF provGen = "none" THEN "first" ELSE "later"
    /\ provEnv' = FALSE
    /\ dirty' = TRUE
    /\ UNCHANGED <<machines, started, running, envValid, toStart, toStop,
                   pending, lastWrite, passLog, startIssued, stopIssued>>
    /\ provRet' = NoResult
    /\ UNCHANGED <<agentVars, taskVars, openStateVars, apiVars, libVars>>

\* ProvStop with a bug: Stop returns nil and leaves the provisioner stopped
\* without error, whatever ended it before.
ProvStopReturnsNil ==
    /\ provPc # "stopped"
    /\ provPc' = "stopped"
    /\ provRet' = [provRet EXCEPT !.stop = Nil]
    /\ provEnv' = FALSE
    /\ dirty' = FALSE
    /\ toStart' = {}
    /\ toStop' = {}
    /\ pending' = NoInstance
    /\ lastWrite' = IF provPc = "recording" THEN "lost" ELSE lastWrite
    /\ passLog' = IF provPc \in {"starting", "recording"}
                   THEN "none" ELSE passLog
    /\ UNCHANGED <<machines, started, running, envValid, provGen,
                   startIssued, stopIssued>>
    /\ UNCHANGED <<agentVars, taskVars, openStateVars, apiVars, libVars>>

\* p.Stop(): the provisioner ends wherever it is; what it held in memory is
\* gone, the id of an instance it had started and not yet written included.
\* Stop returns the error the provisioner ended with; one that had ended by
\* itself keeps its error.
ProvStop ==
    /\ provPc # "stopped"
    /\ provPc' = IF provPc = "failed" THEN "failed" ELSE "stopped"
    /\ provRet' = [provRet EXCEPT !.stop = ProvReason]
    /\ provEnv' = FALSE
    /\ dirty' = FALSE
    /\ toStart' = {}
    /\ toStop' = {}
    /\ pending' = NoInstance
    /\ lastWrite' = IF provPc = "recording" THEN "lost" ELSE lastWrite
    /\ passLog' = IF provPc \in {"starting", "recording"}
                   THEN "none" ELSE passLog
    /\ UNCHANGED <<machines, started, running, envValid, provGen,
                   startIssued, stopIssued>>
    /\ UNCHANGED <<agentVars, taskVars, openStateVars, apiVars, libVars>>

\* ProvBeginPass with a bug: a pass that reads an invalid configuration does
\* nothing, whatever environment the provisioner holds.
ProvBeginPassNeedsValid ==
    /\ provPc = "idle"
    /\ dirty
    /\ dirty' = FALSE
    /\ provEnv' = (provEnv \/ envValid)
    /\ IF envValid
         THEN /\ toStart' = Unprovisioned
              /\ toStop' = UnknownInstances
              /\ provPc' = "starting"
              /\ passLog' = "clean"
         ELSE UNCHANGED <<toStart, toStop, provPc, passLog>>
    /\ UNCHANGED <<machines, started, running, envValid, provGen, pending,
                   lastWrite, startIssued, stopIssued>>
    /\ UNCHANGED provRet
    /\ UNCHANGED <<agentVars, taskVars, openStateVars, apiVars, libVars>>

\* ProvBeginPass with a bug: the configuration is used whether or not it is
\* valid.
ProvBeginPassAnyConfig ==
    /\ provPc = "idle"
    /\ dirty
    /\ dirty' = FALSE
    /\ provEnv' = provEnv
    /\ toStart' = Unprovisioned
    /\ toStop' = UnknownInstances
    /\ provPc' = "starting"
    /\ passLog' = "clean"
    /\ UNCHANGED <<machines, started, running, envValid, provGen, pending,
                   lastWrite, startIssued, stopIssued>>
    /\ UNCHANGED provRet
    /\ UNCHANGED <<agentVars, taskVars, openStateVars, apiVars, libVars>>

\* ProvBeginPass with a bug: every alive machine is to be started, whether
\* or not its record has an instance id.
ProvBeginPassStartsAll ==
    /\ provPc = "idle"
    /\ dirty
    /\ dirty' = FALSE
    /\ provEnv' = (provEnv \/ envValid)
    /\ IF provEnv'
         THEN /\ toStart' = {m \in MachineIds : machines[m].life = "alive"}
              /\ toStop' = UnknownInstances
              /\ provPc' = "starting"
              /\ passLog' = "clean"
         ELSE UNCHANGED <<toStart, toStop, provPc, passLog>>
    /\ UNCHANGED <<machines, started, running, envValid, provGen, pending,
                   lastWrite, startIssued, stopIssued>>
    /\ UNCHANGED provRet
    /\ UNCHANGED <<agentVars, taskVars, openStateVars, apiVars, libVars>>

\* A pass begins, on a notification or at startup: the configuration is
\* fetched (an invalid one is ignored, and without any valid one nothing is
\* done), then the machines and the provider's instances, and the two lists
\* are made.
ProvBeginPass ==
    /\ provPc = "idle"
    /\ dirty
    /\ dirty' = FALSE
    /\ provEnv' = (provEnv \/ envValid)
    /\ IF provEnv'
         THEN /\ toStart' = Unprovisioned
              /\ toStop' = UnknownInstances
              /\ provPc' = "starting"
              /\ passLog' = "clean"
         ELSE UNCHANGED <<toStart, toStop, provPc, passLog>>
    /\ UNCHANGED <<machines, started, running, envValid, provGen, pending,
                   lastWrite, startIssued, stopIssued>>
    /\ UNCHANGED provRet
    /\ UNCHANGED <<agentVars, taskVars, openStateVars, apiVars, libVars>>

\* ProvStartInstance with a bug: after a successful start the list of
\* machines to start is made again from the records, as a second pass
\* running alongside would make it.
ProvStartInstanceRelists ==
    /\ provPc = "starting"
    /\ \E m \in toStart :
          /\ startIssued' = startIssued \cup {m}
          /\ \/ /\ Len(started) < MaxInstances
                /\ toStart' = Unprovisioned
                /\ started' = Append(started, m)
                /\ running' = running \cup {Len(started) + 1}
                /\ pending' = Len(started) + 1
                /\ provPc' = "recording"
                /\ passLog' = passLog
             \/ /\ passLog' = Failed
                /\ toStart' = toStart \ {m}
                /\ UNCHANGED <<started, running, pending, provPc>>
    /\ UNCHANGED <<machines, envValid, provGen, provEnv, dirty, toStop,
                   lastWrite, stopIssued>>
    /\ UNCHANGED provRet
    /\ UNCHANGED <<agentVars, taskVars, openStateVars, apiVars, libVars>>

\* ProvStartInstance with a bug: a running instance that was started for the
\* machine and is on no record is taken over as the machine's instance.
ProvStartInstanceAdopts ==
    /\ provPc = "starting"
    /\ \E m \in toStart :
          /\ toStart' = toStart \ {m}
          /\ IF \E i \in running : started[i] = m /\ ~Known(i)
               THEN /\ \E i \in running :
                         /\ started[i] = m /\ ~Known(i)
                         /\ machines' = [machines EXCEPT ![m].inst = i]
                    /\ UNCHANGED <<started, running, pending, provPc,
                                   startIssued, passLog>>
               ELSE /\ startIssued' = startIssued \cup {m}
                    /\ machines' = machines
                    /\ \/ /\ Len(started) < MaxInstances
                          /\ started' = Append(started, m)
                          /\ running' = running \cup {Len(started) + 1}
                          /\ pending' = Len(started) + 1
                          /\ provPc' = "recording"
                          /\ passLog' = passLog
                       \/ /\ passLog' = Failed
                          /\ UNCHANGED <<started, running, pending,
                                         provPc>>
    /\ UNCHANGED <<envValid, provGen, provEnv, dirty, toStop,
                   lastWrite, stopIssued>>
    /\ UNCHANGED provRet
    /\ UNCHANGED <<agentVars, taskVars, openStateVars, apiVars, libVars>>

\* StartInstance for one machine of the list: the provider starts an
\* instance, or fails, which is logged.
ProvStartInstance ==
    /\ provPc = "starting"
    /\ \E m \in toStart :
          /\ toStart' = toStart \ {m}
          /\ startIssued' = startIssued \cup {m}
          /\ \/ /\ Len(started) < MaxInstances
                /\ started' = Append(started, m)
                /\ running' = running \cup {Len(started) + 1}
                /\ pending' = Len(started) + 1
                /\ provPc' = "recording"
                /\ passLog' = passLog
             \/ /\ passLog' = Failed
                /\ UNCHANGED <<started, running, pending, provPc>>
    /\ UNCHANGED <<machines, envValid, provGen, provEnv, dirty, toStop,
                   lastWrite, stopIssued>>
    /\ UNCHANGED provRet
    /\ UNCHANGED <<agentVars, taskVars, openStateVars, apiVars, libVars>>

\* ProvRecord with a bug: the write is reported done but the record is not
\* changed.
ProvRecordNothing ==
    /\ provPc = "recording"
    /\ lastWrite' = "ok"
    /\ pending' = NoInstance
    /\ provPc' = "starting"
    /\ UNCHANGED <<machines, dirty, passLog>>
    /\ UNCHANGED <<started, running, envValid, provGen, provEnv, toStart,
                   toStop, startIssued, stopIssued>>
    /\ UNCHANGED provRet
    /\ UNCHANGED <<agentVars, taskVars, openStateVars, apiVars, libVars>>

\* The instance's id is written onto the machine's record; the write fails
\* when the record is gone, and may fail anyway.
ProvRecord ==
    /\ provPc = "recording"
    /\ \/ /\ machines[started[pending]].life \in {"alive", "dying", "dead"}
          /\ machines' = [machines EXCEPT ![started[pending]].inst = pending]
          /\ lastWrite' = "ok"
          /\ dirty' = TRUE
          /\ passLog' = passLog
       \/ /\ lastWrite' = "failed"
          /\ passLog' = Failed
          /\ UNCHANGED <<machines, dirty>>
    /\ pending' = NoInstance
    /\ provPc' = "starting"
    /\ UNCHANGED <<started, running, envValid, provGen, provEnv, toStart,
                   toStop, startIssued, stopIssued>>
    /\ UNCHANGED provRet
    /\ UNCHANGED <<agentVars, taskVars, openStateVars, apiVars, libVars>>

\* ProvStopInstances with a bug: every instance the provider runs is
\* stopped.
ProvStopInstancesAll ==
    /\ provPc = "starting"
    /\ toStart = {}
    /\ IF running # {}
         THEN /\ stopIssued' = stopIssued \cup running
              /\ \/ running' = {} /\ passLog' = passLog
                 \/ running' = running /\ passLog' = Failed
         ELSE UNCHANGED <<stopIssued, running, passLog>>
    /\ toStop' = {}
    /\ provPc' = "idle"
    /\ UNCHANGED <<machines, started, envValid, provGen, provEnv, dirty,
                   toStart, pending, lastWrite, startIssued>>
    /\ UNCHANGED provRet
    /\ UNCHANGED <<agentVars, taskVars, openStateVars, apiVars, libVars>>

\* ProvStopInstances with a bug: the instances of the list are not stopped.
ProvStopInstancesLogsOnly ==
    /\ provPc = "starting"
    /\ toStart = {}
    /\ toStop' = {}
    /\ provPc' = "idle"
    /\ UNCHANGED <<stopIssued, running, passLog>>
    /\ UNCHANGED <<machines, started, envValid, provGen, provEnv, dirty,
                   toStart, pending, lastWrite, startIssued>>
    /\ UNCHANGED provRet
    /\ UNCHANGED <<agentVars, taskVars, openStateVars, apiVars, libVars>>

\* StopInstances for the instances of the list, if any: the provider stops
\* them, or fails, which is logged.  No machine record is touched.  The
\* pass is over.
ProvStopInstances ==
    /\ provPc = "starting"
    /\ toStart = {}
    /\ IF toStop # {}
         THEN /\ stopIssued' = stopIssued \cup toStop
              /\ \/ running' = running \ toStop /\ passLog' = passLog
                 \/ running' = running /\ passLog' = Failed
         ELSE UNCHANGED <<stopIssued, running, passLog>>
    /\ toStop' = {}
    /\ provPc' = "idle"
    /\ UNCHANGED <<machines, started, envValid, provGen, provEnv, dirty,
                   toStart, pending, lastWrite, startIssued>>
    /\ UNCHANGED provRet
    /\ UNCHANGED <<agentVars, taskVars, openStateVars, apiVars, libVars>>

\* p.st.Close(): the provisioner's connection to the state is closed under
\* it and it ends by itself with the connection's error, wherever it is.
ProvStateClosed ==
    /\ ~Ended
    /\ provPc' = "failed"
    /\ provEnv' = FALSE
    /\ dirty' = FALSE
    /\ toStart' = {}
    /\ toStop' = {}
    /\ pending' = NoInstance
    /\ lastWrite' = IF provPc = "recording" THEN "lost" ELSE lastWrite
    /\ passLog' = IF provPc \in {"starting", "recording"}
                   THEN "none" ELSE passLog
    /\ UNCHANGED <<machines, started, running, envValid, provGen,
                   startIssued, stopIssued, provRet>>
    /\ UNCHANGED <<agentVars, taskVars, openStateVars, apiVars, libVars>>

\* p.Wait() returns once the provisioner has ended, with the error that
\* ended it.
ProvWait ==
    /\ Ended
    /\ provGen # "none"
    /\ provRet' = [provRet EXCEPT !.wait = ProvReason]
    /\ UNCHANGED <<machines, started, running, envValid, provPc, provGen,
                   provEnv, dirty, toStart, toStop, pending, lastWrite,
                   passLog, startIssued, stopIssued>>
    /\ UNCHANGED <<agentVars, taskVars, openStateVars, apiVars, libVars>>

ProvNext ==
    \/ AddMachine
    \/ AdvanceLife
    \/ RemoveMachine
    \/ invalidateEnvironment
    \/ fixEnvironment
    \/ NewProvisioner
    \/ ProvStop
    \/ ProvStateClosed
    \/ ProvWait
    \/ ProvBeginPass
    \/ ProvStartInstance
    \/ ProvRecord
    \/ ProvStopInstances

ProvSpec == Init /\ [][ProvNext]_vars

\* The provisioner's own steps: its goroutine runs whenever it can.
ProvThread ==
    \/ ProvBeginPass
    \/ ProvStartInstance
    \/ ProvRecord
    \/ ProvStopInstances

FairProvSpec == ProvSpec /\ WF_vars(ProvThread)

(***************************************************************************)
(* importance and moreImportant applied to errors of every kind.           *)
(***************************************************************************)
\* The errors given to importance.
ImpErrors ==
    {Nil, ErrDead, ErrStillAlive}
      \cup {Generic(i) : i \in 1..MaxErrors}
      \cup {UpgradeReady(i) : i \in 1..MaxErrors}

\* Three errors are chosen.
ImportanceDraw ==
    /\ \E e0, e1, e2 \in ImpErrors : impArgs' = <<e0, e1, e2>>
    /\ impPc' = "drawn"
    /\ impRanks' = <<0, 0, 0>>
    /\ impMore' = [i \in 1..3 |-> [j \in 1..3 |-> FALSE]]
    /\ UNCHANGED <<agentVars, taskVars, openStateVars, apiVars, provVars,
                   cmdVars, doneVars, closeVars>>

\* importance(err) for each of them, moreImportant(err0, err1) for each pair.
ImportanceApply ==
    /\ impPc = "drawn"
    /\ impPc' = "applied"
    /\ impRanks' = [i \in 1..3 |-> importance(impArgs[i])]
    /\ impMore' = [i \in 1..3 |->
                     [j \in 1..3 |-> moreImportant(impArgs[i], impArgs[j])]]
    /\ UNCHANGED impArgs
    /\ UNCHANGED <<agentVars, taskVars, openStateVars, apiVars, provVars,
                   cmdVars, doneVars, closeVars>>

ImpNext ==
    \/ ImportanceDraw
    \/ ImportanceApply

ImpSpec == Init /\ [][ImpNext]_vars

(***************************************************************************)
(* agentDone.  ErrDead stands for worker.ErrTerminateAgent, as in          *)
(* importance.                                                             *)
(***************************************************************************)
\* agentDone is called with an error; what ChangeAgentTools would return
\* is fixed at the call.
AgentDoneCall ==
    /\ adPc \in {"none", "returned"}
    /\ adErr' \in ImpErrors
    /\ adSwap' \in {Nil} \cup {Generic(i) : i \in 1..MaxErrors}
    /\ adPc' = "called"
    /\ adSwaps' = 0
    /\ adRet' = Nil
    /\ UNCHANGED adTools
    /\ UNCHANGED <<agentVars, taskVars, openStateVars, apiVars, provVars,
                   impVars, cmdVars, closeVars>>

\* agentDone with a bug: after a successful swap it returns nil.
agentDoneNilAfterSwap ==
    /\ adPc = "called"
    /\ adPc' = "returned"
    /\ IF adErr = ErrDead
         THEN /\ adRet' = Nil
              /\ UNCHANGED <<adSwaps, adTools>>
         ELSE IF isUpgraded(adErr)
           THEN /\ adSwaps' = adSwaps + 1
                /\ IF adSwap # Nil
                     THEN /\ adRet' = adSwap
                          /\ adTools' \in {adTools, adErr.id}
                     ELSE /\ adRet' = Nil
                          /\ adTools' = adErr.id
           ELSE /\ adRet' = adErr
                /\ UNCHANGED <<adSwaps, adTools>>
    /\ UNCHANGED <<adErr, adSwap>>
    /\ UNCHANGED <<agentVars, taskVars, openStateVars, apiVars, provVars,
                   impVars, cmdVars, closeVars>>

\* agentDone(err): the terminate error becomes nil; for an
\* UpgradeReadyError ChangeAgentTools is called and its error, if any,
\* returned instead; err is returned otherwise.  A ChangeAgentTools that
\* fails may or may not have changed the tools.
agentDone ==
    /\ adPc = "called"
    /\ adPc' = "returned"
    /\ IF adErr = ErrDead
         THEN /\ adRet' = Nil
              /\ UNCHANGED <<adSwaps, adTools>>
         ELSE IF isUpgraded(adErr)
           THEN /\ adSwaps' = adSwaps + 1
                /\ IF adSwap # Nil
                     THEN /\ adRet' = adSwap
                          /\ adTools' \in {adTools, adErr.id}
                     ELSE /\ adRet' = adErr
                          /\ adTools' = adErr.id
           ELSE /\ adRet' = adErr
                /\ UNCHANGED <<adSwaps, adTools>>
    /\ UNCHANGED <<adErr, adSwap>>
    /\ UNCHANGED <<agentVars, taskVars, openStateVars, apiVars, provVars,
                   impVars, cmdVars, closeVars>>

DoneNext ==
    \/ AgentDoneCall
    \/ agentDone

DoneSpec == Init /\ [][DoneNext]_vars

(***************************************************************************)
(* closeWorker.                                                            *)
(***************************************************************************)
\* newCloseWorker wraps another worker and closer.
CwNew ==
    /\ cwPc \in {"none", "returned"}
    /\ cwWorker = "dead"
    /\ cwPc' = "none"
    /\ cwWorker' = "running"
    /\ cwKilled' = FALSE
    /\ cwErr' = Nil
    /\ cwClosed' = FALSE
    /\ cwCloseErr' = Nil
    /\ cwRet' = Nil
    /\ UNCHANGED <<agentVars, taskVars, openStateVars, apiVars, provVars,
                   impVars, cmdVars, doneVars>>

\* closeWorker.Kill: c.worker.Kill(), from any goroutine at any time, also
\* after the worker has died.
CwKill ==
    /\ ~cwKilled
    /\ cwKilled' = TRUE
    /\ UNCHANGED <<cwPc, cwWorker, cwErr, cwClosed, cwCloseErr, cwRet>>
    /\ UNCHANGED <<agentVars, taskVars, openStateVars, apiVars, provVars,
                   impVars, cmdVars, doneVars>>

\* The wrapped worker finishes, by itself or because it was killed.
CwWorkerEnds ==
    /\ cwWorker = "running"
    /\ cwWorker' = "dead"
    /\ cwErr' \in ImpErrors
    /\ UNCHANGED <<cwPc, cwKilled, cwClosed, cwCloseErr, cwRet>>
    /\ UNCHANGED <<agentVars, taskVars, openStateVars, apiVars, provVars,
                   impVars, cmdVars, doneVars>>

\* closeWorker.Wait is called.
CwWaitCall ==
    /\ cwPc \in {"none", "returned"}
    /\ cwPc' = "waiting"
    /\ cwRet' = Nil
    /\ UNCHANGED <<cwWorker, cwKilled, cwErr, cwClosed, cwCloseErr>>
    /\ UNCHANGED <<agentVars, taskVars, openStateVars, apiVars, provVars,
                   impVars, cmdVars, doneVars>>

\* err := c.worker.Wait() returns once the worker is dead.
CwWaitWorker ==
    /\ cwPc = "waiting"
    /\ cwWorker = "dead"
    /\ cwPc' = "closing"
    /\ UNCHANGED <<cwWorker, cwKilled, cwErr, cwClosed, cwCloseErr, cwRet>>
    /\ UNCHANGED <<agentVars, taskVars, openStateVars, apiVars, provVars,
                   impVars, cmdVars, doneVars>>

\* CwWaitClose with a bug: a close error is returned.
CwWaitCloseReturnsCloseErr ==
    /\ cwPc = "closing"
    /\ cwClosed' = TRUE
    /\ cwCloseErr' \in {Nil, ErrClose}
    /\ cwRet' = IF cwCloseErr' # Nil THEN cwCloseErr' ELSE cwErr
    /\ cwPc' = "returned"
    /\ UNCHANGED <<cwWorker, cwKilled, cwErr>>
    /\ UNCHANGED <<agentVars, taskVars, openStateVars, apiVars, provVars,
                   impVars, cmdVars, doneVars>>

\* c.closer.Close(), whose error is only logged; return err.
CwWaitClose ==
    /\ cwPc = "closing"
    /\ cwClosed' = TRUE
    /\ cwCloseErr' \in {Nil, ErrClose}
    /\ cwRet' = cwErr
    /\ cwPc' = "returned"
    /\ UNCHANGED <<cwWorker, cwKilled, cwErr>>
    /\ UNCHANGED <<agentVars, taskVars, openStateVars, apiVars, provVars,
                   impVars, cmdVars, doneVars>>

CloseNext ==
    \/ CwNew
    \/ CwKill
    \/ CwWorkerEnds
    \/ CwWaitCall
    \/ CwWaitWorker
    \/ CwWaitClose

CloseSpec == Init /\ [][CloseNext]_vars

(***************************************************************************)
(* cmd.Main.                                                               *)
(***************************************************************************)
\* The errors a step of a Command can fail with.
StepErrors == {Generic(i) : i \in 1..MaxErrors}

\* Main's "error: %v\n" on ctx.Stderr.
ErrorLine(err) == [by |-> "Main", what |-> "error", err |-> err]

\* Main is called with a Command and a new Context: the flag set is made
\* and c.SetFlags(f) called.
MainCall ==
    /\ cmdPc \in {"none", "returned"}
    /\ \E ps \in {Nil, ErrHelp} \cup StepErrors,
          is \in {Nil} \cup StepErrors,
          rs \in {Nil, ErrSilent} \cup StepErrors,
          w \in BOOLEAN :
          command' = [parse |-> ps, init |-> is, run |-> rs, writes |-> w]
    /\ cmdPc' = "parse"
    /\ cmdCalls' = <<"SetFlags">>
    /\ cmdStderr' = <<>>
    /\ cmdStdout' = <<>>
    /\ cmdLog' = <<>>
    /\ cmdCode' = 0
    /\ UNCHANGED <<agentVars, taskVars, openStateVars, apiVars, provVars,
                   impVars, doneVars, closeVars>>

\* ParseArgs(c, f, args): help is written to Stderr and Main returns 0; any
\* other error is written to Stderr and Main returns 2.
MainParseArgs ==
    /\ cmdPc = "parse"
    /\ cmdCalls' = Append(cmdCalls, "Parse")
    /\ IF command.parse = Nil
         THEN /\ cmdPc' = "init"
              /\ UNCHANGED <<cmdStderr, cmdCode>>
         ELSE /\ cmdPc' = "returned"
              /\ IF command.parse = ErrHelp
                   THEN /\ cmdStderr' = Append(cmdStderr,
                              [by |-> "Main", what |-> "help", err |-> Nil])
                        /\ cmdCode' = 0
                   ELSE /\ cmdStderr' =
                              Append(cmdStderr, ErrorLine(command.parse))
                        /\ cmdCode' = 2
    /\ UNCHANGED <<command, cmdStdout, cmdLog>>
    /\ UNCHANGED <<agentVars, taskVars, openStateVars, apiVars, provVars,
                   impVars, doneVars, closeVars>>

\* c.Init(f.Args()): an error is written to Stderr and Main returns 2.
MainInit ==
    /\ cmdPc = "init"
    /\ cmdCalls' = Append(cmdCalls, "Init")
    /\ IF command.init = Nil
         THEN /\ cmdPc' = "run"
              /\ UNCHANGED <<cmdStderr, cmdCode>>
         ELSE /\ cmdPc' = "returned"
              /\ cmdStderr' = Append(cmdStderr, ErrorLine(command.init))
              /\ cmdCode' = 2
    /\ UNCHANGED <<command, cmdStdout, cmdLog>>
    /\ UNCHANGED <<agentVars, taskVars, openStateVars, apiVars, provVars,
                   impVars, doneVars, closeVars>>

\* What Run itself has written to a stream of the context.
RunWrites(stream) ==
    IF command.writes
      THEN Append(stream, [by |-> "Run", what |-> "output", err |-> Nil])
      ELSE stream

\* MainRun with a bug: ErrSilent is reported like any other error.
MainRunPrintsSilent ==
    /\ cmdPc = "run"
    /\ cmdCalls' = Append(cmdCalls, "Run")
    /\ cmdPc' = "returned"
    /\ cmdStdout' = RunWrites(cmdStdout)
    /\ IF command.run = Nil
         THEN /\ cmdCode' = 0
              /\ cmdStderr' = RunWrites(cmdStderr)
              /\ UNCHANGED cmdLog
         ELSE /\ cmdCode' = 1
              /\ cmdLog' = Append(cmdLog, command.run)
              /\ cmdStderr' = Append(RunWrites(cmdStderr),
                                      ErrorLine(command.run))
    /\ UNCHANGED command
    /\ UNCHANGED <<agentVars, taskVars, openStateVars, apiVars, provVars,
                   impVars, doneVars, closeVars>>

\* c.Run(ctx), which may write to the context: an error other than
\* ErrSilent is logged and written to Stderr; with any error Main returns 1,
\* without error 0.
MainRun ==
    /\ cmdPc = "run"
    /\ cmdCalls' = Append(cmdCalls, "Run")
    /\ cmdPc' = "returned"
    /\ cmdStdout' = RunWrites(cmdStdout)
    /\ IF command.run = Nil
         THEN /\ cmdCode' = 0
              /\ cmdStderr' = RunWrites(cmdStderr)
              /\ UNCHANGED cmdLog
         ELSE /\ cmdCode' = 1
              /\ IF command.run # ErrSilent
                   THEN /\ cmdLog' = Append(cmdLog, command.run)
                        /\ cmdStderr' = Append(RunWrites(cmdStderr),
                                                ErrorLine(command.run))
                   ELSE /\ cmdStderr' = RunWrites(cmdStderr)
                        /\ UNCHANGED cmdLog
    /\ UNCHANGED command
    /\ UNCHANGED <<agentVars, taskVars, openStateVars, apiVars, provVars,
                   impVars, doneVars, closeVars>>

MainNext ==
    \/ MainCall
    \/ MainParseArgs
    \/ MainInit
    \/ MainRun

MainSpec == Init /\ [][MainNext]_vars

(***************************************************************************)
(* Properties.                                                             *)
(***************************************************************************)
\* C1: in one run of runTasks, if two tasks report exit causes a and b with
\* rank(a) < rank(b) (nil < generic < upgrade-ready < dead), the error
\* runTasks returns has rank at least rank(b).
C1_ReturnsHighestRank ==
    rtPc = "ret" =>
        \A i, j \in DOMAIN tasks :
            importance(tErr[i]) < importance(tErr[j])
                => importance(chosen.err) >= importance(tErr[j])

\* A step of the waiting loop that takes a value from done.
Receives == rtPc = "waiting" /\ Len(done') < Len(done)

\* C2 as stated: runTasks stops waiting and begins stopping the tasks as soon
\* as any one task's Wait returns, whether it returns nil or an error.
C2_StopsAtFirstCompletion ==
    [][Receives => rtPc' = "stopping"]_vars

\* C2 amended: the waiting loop ends when a task's Wait has returned an
\* error, which becomes the candidate; when the stop signal has fired; or
\* when every task's Wait has returned nil.  A nil completion does not
\* change the candidate and does not end the loop before the last one.
C2_WaitingEnds ==
    [][rtPc = "waiting" =>
        /\ (Receives /\ Head(done).err # Nil)
              => (rtPc' = "stopping" /\ chosen' = Head(done))
        /\ (Receives /\ Head(done).err = Nil)
              => /\ chosen' = chosen
                 /\ rtPc' = "stopping" <=> waitIter + 1 = Len(tasks)
        /\ (~Receives /\ rtPc' # "waiting")
              => (tombState # "alive" /\ rtPc' = "stopping" /\ chosen' = chosen)
    ]_vars

\* C2 witness: a task finished with nil, the loop went on, and a failure of
\* another task ended it.
C2_FailedAfterNil ==
    /\ rtPc = "stopping"
    /\ woke = "failed"
    /\ waitIter >= 2
    /\ chosen.err # Nil

\* C3: when runTasks returns, Stop has been called on every task, also on
\* those that had finished before.
C3_StopCalledOnAll ==
    rtPc = "ret" => \A i \in DOMAIN tasks : stopCalled[i] >= 1

\* C3 witness: runTasks returns after every task had finished by itself.
C3_AllFinishedThenStopped ==
    /\ rtPc = "ret"
    /\ woke = "allNil"
    /\ Len(tasks) >= 2
    /\ \A i \in DOMAIN tasks : stopCalled[i] = 1

\* C4: runTasks returns only after every task has finished and the last
\* loop has waited for every task but the chosen one; that loop only logs:
\* it leaves the chosen error alone, and the chosen error is what is returned.
C4_WaitsAndOnlyLogs ==
    /\ [](rtPc = "ret" =>
            \A i \in DOMAIN tasks :
                /\ tState[i] = "dead"
                /\ i # chosen.index => waited[i])
    /\ [][rtPc = "logging" => chosen' = chosen]_vars
    /\ [][(rtPc = "ret" /\ rtPc' # "ret") => epochErr' = chosen.err]_vars

\* C4 witness: runTasks returns having logged an error more important than
\* the one it returns.
C4_LoggedNotReturned ==
    /\ rtPc = "ret"
    /\ \E i \in logged : moreImportant(tErr[i], chosen.err)

\* C5: once the candidate has rank r, an error of the same rank observed
\* later never replaces it.
C5_FirstOfEqualRankKept ==
    [][(rtPc \in {"waiting", "stopping", "logging"}
            /\ importance(chosen'.err) = importance(chosen.err))
        => chosen'.err = chosen.err]_vars

\* Run's loop returns in this step (Run had read its configuration).
LoopReturns == runPc \notin {"init", "returned"} /\ runPc' = "returned"

C7_DeadEntityEndsRun ==
    observed \in {"dead", "notfound"} =>
        /\ rtPc = "idle"
        /\ epochErr = ErrDead
        /\ swapCalls = 0
        /\ runPc \in {"handle", "returned"}
        /\ runPc = "returned" => runRet = Nil

\* C7 witness: Run has returned nil after finding the machine Dead.
C7_ReturnedOnDead ==
    /\ observed = "dead"
    /\ runPc = "returned"
    /\ runRet = Nil
    /\ stopPc = "idle"

\* C8: an epoch that ends with an UpgradeReadyError is followed by exactly
\* one ChangeAgentTools call (and no other epoch by any); when the call
\* succeeds Run has returned that UpgradeReadyError.
C8_UpgradeSwapsOnceAndReturns ==
    /\ runPc = "handle" => swapCalls = 0
    /\ (runPc \in {"select", "sleep", "returned"} /\ isUpgraded(epochErr))
          => swapCalls = 1
    /\ ~isUpgraded(epochErr) => swapCalls = 0
    /\ swapRes = "ok" =>
          (runPc = "returned" /\ isUpgraded(epochErr) /\ runRet = epochErr)

\* C8 witness: Run has returned the UpgradeReadyError a task of a later
\* epoch stopped with.
C8_ReturnedUpgrade ==
    /\ runPc = "returned"
    /\ swapRes = "ok"
    /\ swapCalls = 1
    /\ isUpgraded(runRet)

\* C9: once Stop has been requested while Run is in progress, Run
\* returns; and when the stop arrives while runTasks supervises the tasks,
\* runTasks comes to return with every task stopped and dead.
C9_StopEndsRun ==
    /\ (stopPc # "idle" /\ runPc \notin {"init", "returned"})
          ~> (runPc = "returned")
    /\ (tombState = "dying" /\ rtPc = "waiting")
          ~> (rtPc = "ret" /\ \A i \in DOMAIN tasks :
                                 tState[i] = "dead" /\ stopCalled[i] = 1)

\* C9 witness: Run has returned after the stop signal ended the waiting of
\* runTasks, and Stop has returned too.
C9_StoppedWhileSupervising ==
    /\ runPc = "returned"
    /\ woke = "stop"
    /\ stopPc = "returned"

\* C10: when the agent is stopped and the tasks of its last epoch all
\* stopped without error, Run returns nil and Stop returns nil.
C10_CleanStopReturnsNil ==
    (runPc = "returned" /\ rtPc = "returned" /\ epochErr = Nil /\ stopPc # "idle")
        => /\ runRet = Nil
           /\ tombReason = Nil
           /\ stopPc = "returned" => stopRet = Nil

\* C10 witness: the stop arrived while the tasks ran, they stopped without
\* error, and both Run and Stop have returned nil.
C10_BothReturnedNil ==
    /\ runPc = "returned"
    /\ woke = "stop"
    /\ epochErr = Nil
    /\ runRet = Nil
    /\ stopPc = "returned"
    /\ stopRet = Nil

\* C11: a stop request that arrives before the retry delay has elapsed ends
\* the wait: the wait reports "stopped" exactly when the tomb was dying, the
\* loop then returns without beginning another epoch; a wait that no stop
\* ended reports that the full delay was slept and, the agent still being
\* alive, the loop begins a new epoch.
C11_RetryWait ==
    /\ [][(runPc \in {"select", "sleep"} /\ runPc' = "loop")
            => (slept' = "stopped" <=> tombState # "alive")]_vars
    /\ [][(runPc = "select" /\ tombState # "alive" /\ runPc' # runPc)
            => runPc' = "loop"]_vars
    /\ [](slept = "stopped" => tombReason # ErrStillAlive)
    /\ [][slept = "stopped"
            => (runPc' \in {"loop", "returned"} /\ epoch' = epoch)]_vars
    /\ [][(slept = "full" /\ runPc = "loop" /\ tombState = "alive"
                /\ runPc' # runPc)
            => (runPc' = "open" /\ epoch' = "later")]_vars

\* C11 witness: an earlier retry wait was slept in full, and Run has
\* returned after a stop ended the retry wait of a later epoch.
C11_StoppedDuringWait ==
    /\ runPc = "returned"
    /\ slept = "stopped"
    /\ epoch = "later"
    /\ rtPc = "returned"

\* C12: wherever the agent process may crash in runOnce / openState, the
\* state store accepts the initial password or the password in the password
\* file; so openState never fails because both were rejected.
C12_OneSecretAccepted ==
    /\ entityPw = InitialPassword \/ (pwfile # NoFile /\ pwfile = entityPw)
    /\ osErr # ErrUnauthorized

\* C12 witness: the process crashed after saving a password and before
\* setting it; the next run found the stored password rejected, connected
\* with the initial one and has set a newly saved password.
C12_RecoveredAfterCrash ==
    /\ storedRes = "unauthorized"
    /\ setPw = "ok"
    /\ entityPw = RandomPassword(2)
    /\ pwfile = entityPw

\* C13: openState calls state.Open with the stored password first, and with
\* the initial password only when there is no password file or the stored
\* password was rejected as unauthorized; an error reading the file, or any
\* other error opening with the stored password, is returned with no
\* attempt on the initial password.
C13_StoredFirstThenInitial ==
    /\ tried \in {<<>>, <<"stored">>, <<"initial">>, <<"stored", "initial">>}
    /\ (tried # <<>> /\ data # NoFile) => Head(tried) = "stored"
    /\ (tried # <<>> /\ tried[Len(tried)] = "initial")
          => (data = NoFile \/ storedRes = "unauthorized")
    /\ osErr = ErrReadFile => tried = <<>>
    /\ storedRes = "error"
          => (tried = <<"stored">> /\ osErr = ErrOpen /\ osPc = "returned")
    /\ storedRes = "ok" => tried = <<"stored">>

\* C13 witness: the stored password was rejected and the connection was
\* opened with the initial password.
C13_FellBackToInitial ==
    /\ tried = <<"stored", "initial">>
    /\ storedRes = "unauthorized"
    /\ stOpen = "open"

\* C14: SetPassword is called with a new password only after that password
\* was written to the password file, and the entity's password changes only
\* to the password the file holds.
C14_SavedBeforeSet ==
    /\ []((osPc = "setpw" /\ password # NoPassword)
            => (saved = "ok" /\ pwfile = password))
    /\ [][entityPw' # entityPw
            => (saved = "ok" /\ pwfile = entityPw' /\ password = entityPw')]_vars

\* C14 witness: the entity's password was set to the generated password
\* the file holds.
C14_SetSavedPassword ==
    /\ setPw = "ok"
    /\ saved = "ok"
    /\ entityPw = password
    /\ pwfile = password
    /\ password # NoPassword

\* C15: when saving the new password fails, the connection is closed and an
\* error is returned; the entity's password is not set and no task runs on
\* that connection.  This is stated of openState and of openAPIState.
C15_FailedSaveDiscardsConn ==
    /\ saved = "failed"
          => /\ stOpen = "closed"
             /\ osErr = ErrSavePassword
             /\ osPc = "returned"
             /\ setPw = "none"
             /\ ~ranOnce
    /\ apiWrite = "failed"
          => /\ apiConn = "closed"
             /\ apiErr = ErrWriteConf
             /\ apiPc = "returned"

\* C16: when openAPIState has returned, a failed write has left the
\* configuration in memory as it was at the call; after a successful write
\* its StateInfo and APIInfo passwords are the new password and OldPassword
\* is the StateInfo password it had at the call; with no new password it is
\* unchanged; and it equals the configuration file.
C16_ConfChangedAfterWrite ==
    apiPc = "returned" =>
        /\ apiWrite = "failed" => conf = confAtCall
        /\ apiWrite = "none" => conf = confAtCall
        /\ apiWrite = "ok"
              => /\ conf.StateInfoPassword = newPassword
                 /\ conf.APIInfoPassword = newPassword
                 /\ conf.OldPassword = confAtCall.StateInfoPassword
                 /\ newPassword # NoPassword
        /\ conf = disk

\* C16 witness: a second new password was written, so that OldPassword is
\* the first one.
C16_RotatedTwice ==
    /\ apiPc = "returned"
    /\ apiWrite = "ok"
    /\ conf.OldPassword = RandomPassword(1)
    /\ conf.StateInfoPassword = RandomPassword(2)

\* C17: the run loop holds a state connection only inside an epoch, from
\* its OpenState to the return of runOnce, and opens one only when it holds
\* none; the tasks of an epoch are built new when the epoch starts them, are
\* all dead when it ends, and none is held outside the epoch.
C17_OneConnectionPerEpoch ==
    /\ [](runPc \notin {"machine", "setpw", "tasks"} => ~connOpen)
    /\ [](runPc # "tasks" => tasks = <<>>)
    /\ [][(runPc = "open" /\ connOpen') => ~connOpen]_vars
    /\ [][(runPc = "tasks" /\ runPc' # "tasks")
            => /\ \A i \in DOMAIN tasks : tState[i] = "dead"
               /\ ~connOpen']_vars
    /\ [][(runPc # "tasks" /\ runPc' = "tasks")
            => /\ connOpen
               /\ \A i \in DOMAIN tasks' :
                     /\ tState'[i] = "running"
                     /\ tErr'[i] = Nil
                     /\ stopCalled'[i] = 0]_vars

\* C17 witness: a later epoch runs its own tasks on its own connection.
C17_LaterEpochRuns ==
    /\ epoch = "later"
    /\ runPc = "tasks"
    /\ connOpen
    /\ Len(tasks) >= 2
    /\ \A i \in DOMAIN tasks : tState[i] = "running"

InstancesOf(m) == {i \in running : started[i] = m}

\* C19 as stated: no machine whose record carries an instance id is in a
\* provisioner's list of machines to start, and the provider never runs
\* more than one instance for a machine.
C19_NeverStartedAgain ==
    /\ \A m \in toStart : machines[m].inst = NoInstance
    /\ \A m \in MachineIds : Cardinality(InstancesOf(m)) <= 1

\* C19, amended: no machine whose record carries an instance id is in a
\* provisioner's list of machines to start, whichever provisioner wrote the
\* id; the id on a record never changes; and no instance is started for a
\* machine after the instance its record names.  (An instance started for
\* the machine before that one, whose id never reached the record, may still
\* be running.)
C19_NoStartAfterRecorded ==
    /\ [](\A m \in toStart : machines[m].inst = NoInstance)
    /\ [](\A m \in MachineIds : \A j \in 1..Len(started) :
             (machines[m].inst # NoInstance /\ started[j] = m)
                => j <= machines[m].inst)
    /\ [][\A m \in MachineIds :
             machines[m].inst # NoInstance
                => machines'[m].inst = machines[m].inst]_vars

\* A provisioner created after an earlier one was stopped has made its
\* lists, an alive machine with a recorded, running instance is not in
\* them, and that instance is the only one ever started.
C19_RestartedOverProvisioned ==
    /\ provGen = "later"
    /\ provPc = "starting"
    /\ toStart = {}
    /\ toStop = {}
    /\ Len(started) = 1
    /\ \E m \in MachineIds :
          /\ machines[m].life = "alive"
          /\ machines[m].inst = 1
          /\ InstancesOf(m) = {1}

\* The instance was started for a machine whose record is now Dead or
\* removed.
Orphaned(i) == machines[started[i]].life \in {"dead", "removed"}

\* C20: every instance a provisioner is about to stop, is asked to stop or
\* that leaves the provider is the instance of no live machine record; a
\* pass puts only Alive records without an instance id in its list of
\* machines to start, so none for a record that is gone; and a running
\* instance whose machine record is Dead or removed, in front of a running
\* provisioner that holds a valid environment, gets a StopInstances (unless
\* the provisioner is stopped first).
C20_UnknownStopped ==
    /\ [](\A i \in toStop : ~Known(i))
    /\ [][\A i \in (stopIssued' \ stopIssued) \cup (running \ running') :
             ~Known(i)]_vars
    /\ [][provPc = "idle" /\ provPc' = "starting" =>
             \A m \in toStart' : machines[m].life = "alive"
                                   /\ machines[m].inst = NoInstance]_vars
    /\ \A i \in 1..MaxInstances :
          (i \in running /\ Orphaned(i) /\ i \notin stopIssued
              /\ ~Ended /\ provEnv)
            ~> (i \in stopIssued \/ Ended)

\* The instance of a removed machine record was stopped, no instance was
\* started again for that machine, and the instance of a live machine
\* record is still running.
C20_OnlyUnknownStopped ==
    /\ provPc = "idle"
    /\ Len(started) = 2
    /\ \E i, j \in 1..MaxInstances :
          /\ machines[started[i]].life = "removed"
          /\ stopIssued = {i}
          /\ running = {j}
          /\ Known(j)
          /\ started[j] # started[i]

\* The instance is on no machine's record and is not the one the provisioner
\* is about to write.
Unrecorded(i) ==
    /\ i # pending
    /\ \A m \in MachineIds : machines[m].inst # i

\* The provisioner has read an invalid configuration and holds no valid one.
NoEnvironment == ~provEnv /\ ~envValid

BeginsPass == provPc = "idle" /\ dirty /\ ~dirty' /\ ~Ended'

\* C23 as stated: a pass that reads an invalid configuration lists nothing
\* to start or to stop and leaves the provisioner watching.
C23_InvalidConfigSuspends ==
    [][BeginsPass /\ ~envValid =>
          /\ provPc' = "idle"
          /\ toStart' = {}
          /\ toStop' = {}]_vars

\* C23, amended: a pass of a provisioner that has not yet held a valid
\* environment and reads an invalid configuration lists nothing to start or
\* to stop and leaves the provisioner watching; a provisioner that holds no
\* valid environment is never inside a pass, so it issues no call; and once
\* the configuration is valid, an Alive machine without instance id gets a
\* StartInstance (unless the record changes, the provisioner is stopped or
\* the configuration is invalid again first).
C23_NoEnvironmentSuspends ==
    /\ [][BeginsPass /\ ~envValid /\ ~provEnv =>
             /\ provPc' = "idle"
             /\ ~provEnv'
             /\ UNCHANGED <<toStart, toStop, started, running, startIssued,
                            stopIssued, machines>>]_vars
    /\ [](~provEnv => /\ (Ended \/ provPc = "idle")
                      /\ toStart = {}
                      /\ toStop = {})
    /\ \A m \in MachineIds :
          (provPc = "idle" /\ ~provEnv /\ envValid
              /\ m \in Unprovisioned /\ m \notin startIssued)
            ~> \/ m \in startIssued
               \/ m \notin Unprovisioned
               \/ Ended
               \/ NoEnvironment

\* The provisioner took a notification while the configuration was invalid,
\* did nothing and is still watching, with a machine waiting to be started.
C23_Suspended ==
    /\ provPc = "idle"
    /\ ~dirty
    /\ NoEnvironment
    /\ startIssued = {}
    /\ stopIssued = {}
    /\ Unprovisioned # {}

\* C24: a provisioner keeps the valid environment it has obtained until it
\* is stopped; every pass it begins while holding one goes on to the lists
\* of machines to start and instances to stop, whether the configuration it
\* reads is valid or not; and an Alive machine without instance id in front
\* of it while the configuration is invalid gets a StartInstance (unless
\* the record changes or the provisioner is stopped first).
C24_KeepsLastValidEnvironment ==
    /\ [][provEnv /\ ~Ended' => provEnv']_vars
    /\ [][BeginsPass /\ provEnv =>
             /\ provPc' = "starting"
             /\ toStart' = Unprovisioned
             /\ toStop' = UnknownInstances]_vars
    /\ \A m \in MachineIds :
          (~Ended /\ provEnv /\ ~envValid
              /\ m \in Unprovisioned /\ m \notin startIssued)
            ~> \/ m \in startIssued
               \/ m \notin Unprovisioned
               \/ Ended

\* A pass that began after the configuration became invalid has started an
\* instance for a machine with the environment the provisioner held.
C24_StartedWithOldEnvironment ==
    /\ provPc = "recording"
    /\ passLog = "clean"
    /\ provEnv
    /\ ~envValid
    /\ pending \in running
    /\ machines[started[pending]].life = "alive"

\* The provisioner is inside a pass.
InPass == provPc \in {"starting", "recording"}

StopCalledOnFinished ==
    /\ tombState = "dead"
    /\ stopPc \in {"idle", "returned"}
    /\ stopPc' \in {"waiting", "again"}

\* The step is the return of a call of Stop.
StopReturns == stopPc \in {"waiting", "again"} /\ stopPc' = "returned"

\* C26 as stated: a Stop called on an agent that has already finished
\* changes nothing and returns nil, and a later Stop returns what the
\* earlier one returned.
C26_StopOnFinishedReturnsNil ==
    /\ [][StopCalledOnFinished =>
             /\ UNCHANGED <<tombState, tombReason, runPc, runRet, taskVars>>
             /\ tombReason = Nil]_vars
    /\ [][StopReturns => stopRet' = tombReason]_vars
    /\ [][stopPc = "again" /\ stopPc' = "returned" =>
             stopRet' = stopRet]_vars

\* C26, amended: a Stop called on an agent that has already finished
\* changes nothing; every Stop returns, once the agent is dead, the reason
\* its tomb holds, which is nil unless the agent was killed with an error,
\* and so a later Stop returns what the earlier one returned.
C26_StopOnFinishedIsNoOp ==
    /\ [][StopCalledOnFinished =>
             UNCHANGED <<tombState, tombReason, runPc, runRet, taskVars>>]_vars
    /\ [][StopReturns => /\ tombState = "dead"
                         /\ stopRet' = tombReason]_vars
    /\ [][stopPc = "again" /\ stopPc' = "returned" =>
             stopRet' = stopRet]_vars

\* Stop is being called again on an agent that finished with an error,
\* which the earlier Stop returned.
C26_StoppedAgainAfterError ==
    /\ stopPc = "again"
    /\ tombState = "dead"
    /\ runPc = "returned"
    /\ stopRet # Nil
    /\ stopRet = runRet

\* C27: what Wait and Stop return for a provisioner that ended by itself,
\* its state connection closed, is the error that ended it, never nil, and
\* the provisioner is then not restarted or marked stopped without error;
\* whenever both have returned, they returned the same.
C27_StopReturnsEndingError ==
    /\ provPc = "failed" =>
          /\ provRet.wait \in {Unset, ErrClosing}
          /\ provRet.stop \in {Unset, ErrClosing}
    /\ provPc # "failed" =>
          /\ provRet.wait \in {Unset, Nil}
          /\ provRet.stop \in {Unset, Nil}
    /\ (provRet.wait # Unset /\ provRet.stop # Unset) =>
          provRet.wait = provRet.stop

\* The provisioner ended when its state connection was closed; Wait
\* and Stop have both returned that error.
C27_BothReturnedClosing ==
    /\ provPc = "failed"
    /\ provRet.wait = ErrClosing
    /\ provRet.stop = ErrClosing

\* C28: importance gives 0 to nil, 1 to an error of no special kind, 2 to an
\* UpgradeReadyError and 3 to the terminate-agent error; moreImportant(e0,
\* e1) holds exactly when importance(e0) > importance(e1); so no error is
\* more important than itself, no two errors are more important than each
\* other, the relation is transitive, and two errors of the same importance
\* are not related.
C28_ImportanceRanks ==
    impPc = "applied" =>
      /\ \A i \in 1..3 :
            impRanks[i] = CASE impArgs[i] = Nil -> 0
                            [] impArgs[i].kind = "upgrade" -> 2
                            [] impArgs[i] = ErrDead -> 3
                            [] OTHER -> 1
      /\ \A i, j \in 1..3 : impMore[i][j] <=> impRanks[i] > impRanks[j]
      /\ \A i \in 1..3 : ~impMore[i][i]
      /\ \A i, j \in 1..3 : impMore[i][j] => ~impMore[j][i]
      /\ \A i, j, k \in 1..3 :
            (impMore[i][j] /\ impMore[j][k]) => impMore[i][k]
      /\ \A i, j \in 1..3 :
            impRanks[i] = impRanks[j] => (~impMore[i][j] /\ ~impMore[j][i])

\* importance was applied to the terminate-agent error, an
\* UpgradeReadyError and an error of no special kind, in this order of
\* importance.
C28_ThreeRanksCompared ==
    /\ impPc = "applied"
    /\ impArgs = <<ErrDead, UpgradeReady(1), Generic(1)>>
    /\ impRanks = <<3, 2, 1>>
    /\ impMore[1][2] /\ impMore[2][3] /\ impMore[1][3]

\* What Main itself has written to a stream of the context.
ByMain(stream) == SelectSeq(stream, LAMBDA l : l.by = "Main")

\* The steps of Main in their order.
MainSteps == <<"SetFlags", "Parse", "Init", "Run">>

\* C29: Main makes its steps in the order parse, Init, Run and stops at the
\* first that fails: Init is called only after the flags parsed, Run only
\* after Init succeeded; Main returns 2 when parsing or Init failed, 0 when
\* help was asked for or everything succeeded, 1 when Run failed; Main
\* itself writes nothing to Stdout, and to Stderr the help text when help
\* was asked for, the error of the step that failed otherwise, and nothing
\* at all when Run returned ErrSilent or no step failed.
C29_MainStepsAndCodes ==
    /\ cmdCalls = SubSeq(MainSteps, 1, Len(cmdCalls))
    /\ Len(cmdCalls) >= 3 => command.parse = Nil
    /\ Len(cmdCalls) = 4 => command.init = Nil
    /\ ByMain(cmdStdout) = <<>>
    /\ cmdPc = "returned" =>
          /\ cmdCode =
                CASE command.parse = ErrHelp -> 0
                  [] command.parse # Nil -> 2
                  [] command.init # Nil -> 2
                  [] command.run # Nil -> 1
                  [] OTHER -> 0
          /\ cmdCode = 2 => Len(cmdCalls) < 4
          /\ ByMain(cmdStderr) =
                CASE command.parse = ErrHelp ->
                       <<[by |-> "Main", what |-> "help", err |-> Nil]>>
                  [] command.parse # Nil -> <<ErrorLine(command.parse)>>
                  [] command.init # Nil -> <<ErrorLine(command.init)>>
                  [] command.run \notin {Nil, ErrSilent} ->
                       <<ErrorLine(command.run)>>
                  [] OTHER -> <<>>
          /\ (command.parse = Nil /\ command.init = Nil
                  /\ command.run = ErrSilent) => cmdLog = <<>>

\* Run wrote to Stdout and Stderr and returned ErrSilent: Main has returned
\* 1 and has written nothing itself.
C29_SilentFailure ==
    /\ cmdPc = "returned"
    /\ cmdCalls = MainSteps
    /\ command.run = ErrSilent
    /\ cmdCode = 1
    /\ Len(cmdStdout) = 1
    /\ Len(cmdStderr) = 1
    /\ ByMain(cmdStderr) = <<>>

\* The stopping loop has called Stop on task j and Stop returned an
\* UpgradeReadyError.
StopReturnedUpgrade(j) ==
    /\ rtPc \in {"stopping", "logging", "ret"}
    /\ stopCalled[j] > 0
    /\ isUpgraded(tErr[j])

\* C30: once the Stop of any task has returned an UpgradeReadyError in the
\* stopping loop of runTasks, the chosen error is an UpgradeReadyError,
\* whatever ended the waiting loop, and that is what runTasks returns.
C30_UpgradeFromStopWins ==
    /\ [](\A j \in DOMAIN tasks :
            StopReturnedUpgrade(j) => isUpgraded(chosen.err))
    /\ [][(rtPc = "ret" /\ rtPc' # "ret"
             /\ \E j \in DOMAIN tasks : StopReturnedUpgrade(j))
            => isUpgraded(epochErr')]_vars

\* The waiting loop ended with the failure of another task, which was not
\* an upgrade; the chosen task's error never went through the done channel:
\* its Stop returned the UpgradeReadyError, which runTasks is about to
\* return.
C30_UpgradeAfterOtherFailure ==
    /\ rtPc = "ret"
    /\ woke = "failed"
    /\ chosen.index \in DOMAIN tasks
    /\ isUpgraded(chosen.err)
    /\ gPc[chosen.index] = "wait"
    /\ \E j \in DOMAIN tasks :
          /\ j # chosen.index
          /\ gPc[j] = "sent"
          /\ tErr[j] # Nil
          /\ ~isUpgraded(tErr[j])
    /\ \A j \in DOMAIN tasks : isUpgraded(tErr[j]) => j = chosen.index

\* The first non-nil error the Stop calls returned, in task order, or nil.
\* After the stopping loop tErr[j] is what Stop returned for task j.
FirstStopErr ==
    IF \A j \in DOMAIN tasks : tErr[j] = Nil
      THEN Nil
      ELSE tErr[CHOOSE j \in DOMAIN tasks :
                  /\ tErr[j] # Nil
                  /\ \A k \in DOMAIN tasks : k < j => tErr[k] = Nil]

\* The failure that ended the waiting loop is the first one received; it
\* is kept by every Stop that does not return an UpgradeReadyError and by
\* the last loop, and returned.
FirstFailureKept ==
    /\ [][(Receives /\ Head(done).err # Nil) => chosen' = Head(done)]_vars
    /\ [][(rtPc = "stopping" /\ woke = "failed" /\ ~isUpgraded(tErr'[idx]))
            => chosen' = chosen]_vars
    /\ [][(rtPc = "logging" /\ woke = "failed") => chosen' = chosen]_vars
    /\ [][(rtPc = "ret" /\ rtPc' # "ret") => epochErr' = chosen.err]_vars

\* C31 as stated: a failure observed by the waiting loop is returned unless
\* a Stop returns an UpgradeReadyError; when the waiting loop observed no
\* failure, runTasks returns the first non-nil error the Stop calls
\* returned in task order, or nil.
C31_FirstErrorReturned ==
    /\ FirstFailureKept
    /\ []((rtPc \in {"logging", "ret"} /\ woke # "failed")
            => chosen.err = FirstStopErr)

\* C31 amended: the second part holds when no Stop returned an
\* UpgradeReadyError; an UpgradeReadyError returned by a later Stop
\* replaces the first non-nil error.
C31_FirstErrorReturnedUnlessUpgrade ==
    /\ FirstFailureKept
    /\ []((/\ rtPc \in {"logging", "ret"}
            /\ woke # "failed"
            /\ \A j \in DOMAIN tasks : ~isUpgraded(tErr[j]))
            => chosen.err = FirstStopErr)

\* The stop signal ended the waiting loop, two Stop calls returned errors,
\* none an upgrade, and the first in task order is about to be returned.
C31_FirstOfTwoStopErrors ==
    /\ rtPc = "ret"
    /\ woke = "stop"
    /\ \A j \in DOMAIN tasks : ~isUpgraded(tErr[j])
    /\ \E i, j \in DOMAIN tasks :
          /\ i < j
          /\ tErr[i] # Nil
          /\ tErr[j] # Nil
          /\ tErr[i] # tErr[j]
          /\ chosen = [index |-> i, err |-> tErr[i]]

\* C32: when the stored password authenticates, openState returns an empty
\* new password after that single attempt, and until runOnce returns the
\* password file is not written, SetPassword is not called and the entity's
\* password stays; a password is generated only on a connection that was
\* opened with the initial password.
C32_StoredPasswordKept ==
    /\ [](storedRes = "ok" =>
            /\ tried = <<"stored">>
            /\ password = NoPassword
            /\ saved = "none"
            /\ setPw = "none")
    /\ [][storedRes = "ok" =>
            /\ pwfile' = pwfile
            /\ entityPw' = entityPw
            /\ generated' = generated]_vars
    /\ [][generated' # generated =>
            /\ tried # <<>>
            /\ tried[Len(tried)] = "initial"
            /\ stOpen = "open"
            /\ entityPw = InitialPassword]_vars

\* A password generated by an earlier runOnce authenticated, and the
\* agent's work has run on that connection without any new password.
C32_RanWithStoredPassword ==
    /\ storedRes = "ok"
    /\ ranOnce
    /\ generated >= 1
    /\ pwfile = entityPw
    /\ pwfile # InitialPassword
    /\ password = NoPassword

\* C33: agentDone returns nil for the terminate error; for an
\* UpgradeReadyError it calls ChangeAgentTools once and returns the
\* UpgradeReadyError itself when the swap succeeded, the swap's error when
\* it failed; any other error, and nil, is returned as it is, without a
\* call of ChangeAgentTools and with the tools left alone.
C33_AgentDone ==
    /\ [](adPc = "returned" =>
            /\ adErr = ErrDead => (adRet = Nil /\ adSwaps = 0)
            /\ isUpgraded(adErr) =>
                  /\ adSwaps = 1
                  /\ adRet = (IF adSwap = Nil THEN adErr ELSE adSwap)
                  /\ adSwap = Nil => adTools = adErr.id
            /\ (adErr # ErrDead /\ ~isUpgraded(adErr)) =>
                  (adRet = adErr /\ adSwaps = 0))
    /\ [][(adPc = "called" /\ ~isUpgraded(adErr)) => adTools' = adTools]_vars

\* After an upgrade whose swap succeeded, a later UpgradeReadyError's swap
\* failed: agentDone has returned the swap's error.
C33_SwapFailedAfterUpgrade ==
    /\ adPc = "returned"
    /\ isUpgraded(adErr)
    /\ adSwap # Nil
    /\ adRet = adSwap
    /\ adRet # adErr
    /\ adTools \notin {0, adErr.id}

\* The number of elements of seq equal to x.
Count(seq, x) == Cardinality({i \in DOMAIN seq : seq[i] = x})

C35_ClosesAfterWait ==
    /\ [][(cwClosed' /\ ~cwClosed) =>
            (cwPc = "closing" /\ cwWorker = "dead")]_vars
    /\ [](cwPc = "returned" => (cwRet = cwErr /\ cwClosed))
    /\ [](cwPc = "closing" => cwWorker = "dead")
    /\ [][(cwKilled' /\ ~cwKilled) =>
            UNCHANGED <<cwPc, cwWorker, cwErr, cwClosed, cwCloseErr,
                        cwRet>>]_vars

\* The worker was killed and died with an error, Close failed, and Wait
\* has returned the worker's error.
C35_CloseFailedWorkerErrorReturned ==
    /\ cwPc = "returned"
    /\ cwKilled
    /\ cwCloseErr = ErrClose
    /\ cwErr \notin {Nil, ErrClose}
    /\ cwRet = cwErr

\* The goroutines of runTasks that have not sent their result yet.
Unsent == {i \in DOMAIN tasks : gPc[i] = "wait"}

\* C36: the done channel always has room for the result of every goroutine
\* that has not sent yet, so no send ever blocks; and when runTasks is
\* about to return every task is dead, so every goroutine left has its
\* result and room to send it, nothing being received from done any more.
C36_SendNeverBlocks ==
    /\ [](tasks # <<>> => Len(done) + Cardinality(Unsent) <= DoneCap)
    /\ [](rtPc = "ret" => \A i \in Unsent : tState[i] = "dead")
    /\ [][(rtPc # "waiting" /\ rtPc # "idle")
            => (Len(done') >= Len(done) \/ rtPc' = "returned")]_vars

\* runTasks is about to return while results lie in done that nobody will
\* receive and a goroutine has still to send.
C36_ReturnsWithUnsent ==
    /\ rtPc = "ret"
    /\ Len(tasks) >= 3
    /\ Len(done) >= 1
    /\ Cardinality(Unsent) >= 1
    /\ Len(done) + Cardinality(Unsent) = DoneCap

\* A task has died with an error and its goroutine has not sent it yet, or
\* the error lies in done.
TaskFailed ==
    \/ \E i \in Unsent : tState[i] = "dead" /\ tErr[i] # Nil
    \/ \E k \in DOMAIN done : done[k].err # Nil

\* C37: once the stop signal has fired or a task has failed while runTasks
\* waits, runTasks returns; Stop returns with the task dead, and Wait on a
\* dead task returns.
C37_RunTasksReturns ==
    /\ (rtPc = "waiting" /\ tombState # "alive") ~> (rtPc = "returned")
    /\ (rtPc = "waiting" /\ TaskFailed) ~> (rtPc = "returned")
    /\ (rtPc \in {"stopping", "logging", "ret"}) ~> (rtPc = "returned")

\* runTasks has returned after the failure of a task, without any stop
\* request.
C37_ReturnedAfterFailure ==
    /\ rtPc = "returned"
    /\ woke = "failed"
    /\ tombState = "alive"
    /\ stopPc = "idle"

\* The loop condition of Run holds: runOnce is about to be called.
PassesLoopCheck == runPc = "loop" /\ runPc' = "open"

\* C38: once a stop has been requested the loop condition of Run never
\* holds again, so the only runOnce that can still begin is the one whose
\* loop condition held before the stop arrived, and once it has begun
\* none is about to begin ever after; nor does the loop condition hold
\* after the select has taken the tomb's Dying case.
C38_NoEpochAfterStop ==
    /\ [][tombState # "alive" => ~PassesLoopCheck]_vars
    /\ [][slept = "stopped" => ~PassesLoopCheck]_vars
    /\ []((tombState # "alive" /\ runPc # "open") => [](runPc # "open"))

\* The stop arrived when the loop condition had held again and runOnce was
\* about to be called: that epoch will run.
C38_EpochBegunAtStop ==
    /\ tombState = "dying"
    /\ tombReason = Nil
    /\ stopPc = "waiting"
    /\ epoch = "later"
    /\ runPc = "open"

\* C39: whichever way Run has returned, the agent's tomb is dead, so that
\* the Wait of a Stop called before or after returns.
C39_TombDoneWhenRunReturns ==
    runPc = "returned" => tombState = "dead"

====
